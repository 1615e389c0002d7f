------------------------------ MODULE PoolProofs ------------------------------
(***************************************************************************)
(* The four instantiation pools, for every number of events and variables. *)
(* Three of them count: what they hand out for a number are its digits in  *)
(* base num_events, which the wheels of the on-the-fly pool and of the     *)
(* scoped one show as they turn, and which the pregenerated pool writes    *)
(* down one level at a time.  Smaller numbers come before larger ones, and *)
(* each instantiation is that of one number.                               *)
(***************************************************************************)
EXTENDS InstantsPools, NatFacts

-----------------------------------------------------------------------------
(***************************************************************************)
(* Powers.                                                                 *)
(***************************************************************************)

\* The counts the pools are made for.
Counted == num_events \in Nat \ {0} /\ num_vars \in Nat \ {0}

\* The powers are those of the recursive definition.
LEMMA PowDef ==
  ASSUME NEW n, num_vars \in Nat
  PROVE  Otf!Pow(n) = [j \in 0 .. num_vars |-> IF j = 0 THEN 1 ELSE n * Otf!Pow(n)[j - 1]]
<1> DEFINE Body(p, j) == IF j = 0 THEN 1 ELSE n * p[j - 1]
           S == {m \in Nat : \E p : p = [j \in 0 .. m |-> Body(p, j)]}
<1>1. 0 \in S
  <2> DEFINE p == [j \in 0 .. 0 |-> 1]
  <2>1. p = [j \in 0 .. 0 |-> Body(p, j)]
    OBVIOUS
  <2> QED BY <2>1
<1>2. ASSUME NEW m \in Nat, m \in S PROVE m + 1 \in S
  <2>1. PICK p : p = [j \in 0 .. m |-> Body(p, j)]
    BY <1>2
  <2> DEFINE q == [j \in 0 .. m + 1 |-> IF j <= m THEN p[j] ELSE Body(p, j)]
  <2>2. \A j \in 0 .. m + 1 : q[j] = Body(q, j)
    <3> SUFFICES ASSUME NEW j \in 0 .. m + 1 PROVE q[j] = Body(q, j)
      OBVIOUS
    <3>1. j > 0 => q[j - 1] = p[j - 1]
      OBVIOUS
    <3>2. Body(q, j) = Body(p, j)
      BY <3>1
    <3>3. j <= m => p[j] = Body(p, j)
      BY <2>1
    <3> QED BY <3>2, <3>3
  <2>3. q = [j \in 0 .. m + 1 |-> Body(q, j)]
    <3> HIDE DEF Body
    <3>1. q = [j \in 0 .. m + 1 |-> q[j]]
      OBVIOUS
    <3> HIDE DEF q
    <3> QED BY <3>1, <2>2
  <2> HIDE DEF q
  <2> QED BY <2>3
<1>3. num_vars \in S
  <2> HIDE DEF S
  <2> QED BY <1>1, <1>2, NatSetInduction
<1>4. PICK p : p = [j \in 0 .. num_vars |-> Body(p, j)]
  BY <1>3
<1> QED BY <1>4 DEF Otf!Pow

\* A power is one, or num_events times the one before.
LEMMA PowStep ==
  ASSUME Counted
  PROVE  /\ Otf!Pow(num_events)[0] = 1
         /\ \A j \in 1 .. num_vars :
              Otf!Pow(num_events)[j] = num_events * Otf!Pow(num_events)[j - 1]
BY PowDef DEF Counted

\* Powers are positive.
LEMMA PowType ==
  ASSUME Counted
  PROVE  \A j \in 0 .. num_vars : Otf!Pow(num_events)[j] \in Nat \ {0}
<1> DEFINE S == {j \in Nat : j <= num_vars => Otf!Pow(num_events)[j] \in Nat \ {0}}
<1>1. 0 \in S
  BY PowStep
<1>2. ASSUME NEW j \in Nat, j \in S PROVE j + 1 \in S
  <2> SUFFICES ASSUME j + 1 <= num_vars PROVE Otf!Pow(num_events)[j + 1] \in Nat \ {0}
    OBVIOUS
  <2>1. Otf!Pow(num_events)[j] \in Nat \ {0}
    BY <1>2 DEF Counted
  <2>2. j + 1 \in 1 .. num_vars /\ (j + 1) - 1 = j
    BY DEF Counted
  <2>3. Otf!Pow(num_events)[j + 1] = num_events * Otf!Pow(num_events)[j]
    BY <2>2, PowStep
  <2> QED BY <2>1, <2>3, ProductBound DEF Counted
<1>3. Nat \subseteq S
  <2> HIDE DEF S
  <2> QED BY <1>1, <1>2, NatSetInduction
<1> QED BY <1>3 DEF Counted

\* A power divides every higher one, num_events times if not more.
LEMMA PowDivides ==
  ASSUME Counted, NEW i \in 0 .. num_vars, NEW j \in i + 1 .. num_vars
  PROVE  \E m \in Nat \ {0} :
           Otf!Pow(num_events)[j] = m * (num_events * Otf!Pow(num_events)[i])
<1> DEFINE P == Otf!Pow(num_events)
           S == {k \in Nat : k \in i + 1 .. num_vars =>
                   \E m \in Nat \ {0} : P[k] = m * (num_events * P[i])}
<1>1. 0 \in S
  OBVIOUS
<1>2. ASSUME NEW k \in Nat, k \in S PROVE k + 1 \in S
  <2> SUFFICES ASSUME k + 1 \in i + 1 .. num_vars
               PROVE  \E m \in Nat \ {0} : P[k + 1] = m * (num_events * P[i])
    OBVIOUS
  <2>1. k + 1 \in 1 .. num_vars /\ (k + 1) - 1 = k
    BY DEF Counted
  <2>2. P[k + 1] = num_events * P[k]
    BY <2>1, PowStep
  <2>3. P[i] \in Nat \ {0} /\ num_events \in Nat \ {0}
    BY PowType DEF Counted
  <2>4. num_events * P[i] \in Nat
    BY <2>3
  <2> HIDE DEF P
  <2>5. CASE k = i
    <3>1. P[k + 1] = 1 * (num_events * P[i])
      BY <2>2, <2>4, <2>5
    <3> QED BY <3>1
  <2>6. CASE k # i
    <3>1. k \in i + 1 .. num_vars
      BY <2>6, <2>1 DEF Counted
    <3>2. PICK m \in Nat \ {0} : P[k] = m * (num_events * P[i])
      BY <1>2, <3>1
    <3>3. num_events * m \in Nat \ {0}
      BY <2>3, ProductBound
    <3>4. P[k + 1] = (num_events * m) * (num_events * P[i])
      <4> DEFINE x == num_events * P[i]
      <4>1. P[k + 1] = num_events * (m * x)
        BY <2>2, <3>2
      <4>2. x \in Nat
        BY <2>4
      <4> HIDE DEF x
      <4>3. num_events * (m * x) = (num_events * m) * x
        BY <2>3, <4>2
      <4> QED BY <4>1, <4>3 DEF x
    <3> QED BY <3>3, <3>4
  <2> QED BY <2>5, <2>6
<1>3. Nat \subseteq S
  <2> HIDE DEF S
  <2> QED BY <1>1, <1>2, NatSetInduction
<1> QED BY <1>3 DEF Counted

-----------------------------------------------------------------------------
(***************************************************************************)
(* Numbers as instantiations.                                              *)
(***************************************************************************)

\* The event a wheel shows for a number, and all the wheels.
Digit(c, v) == ((c \div Otf!switchvar(v)) % num_events) + 1
Digits(c)   == [v \in FormVars |-> Digit(c, v)]

\* A wheel moves every so many counts.
LEMMA SwitchvarType ==
  ASSUME Counted
  PROVE  \A v \in FormVars : Otf!switchvar(v) \in Nat \ {0}
<1> SUFFICES ASSUME NEW v \in FormVars PROVE Otf!switchvar(v) \in Nat \ {0}
  OBVIOUS
<1>1. num_vars - v \in 0 .. num_vars
  BY DEF Counted, FormVars
<1> QED BY <1>1, PowType DEF Otf!switchvar

\* The digits of a number are an instantiation.
LEMMA DigitsType ==
  ASSUME Counted, NEW c \in Nat
  PROVE  Digits(c) \in [FormVars -> Events]
<1> SUFFICES ASSUME NEW v \in FormVars PROVE Digit(c, v) \in Events
  BY DEF Digits
<1>1. Otf!switchvar(v) \in Nat \ {0} /\ num_events \in Nat \ {0}
  BY SwitchvarType DEF Counted
<1>2. c \div Otf!switchvar(v) \in Nat
  BY <1>1
<1>3. (c \div Otf!switchvar(v)) % num_events \in 0 .. num_events - 1
  BY <1>1, <1>2
<1> QED BY <1>1, <1>3 DEF Digit, Events

\* The largest number shows the last event on every wheel.
LEMMA LastDigits ==
  ASSUME Counted, NEW v \in FormVars
  PROVE  Digit(Otf!Pow(num_events)[num_vars] - 1, v) = num_events
<1> DEFINE i == num_vars - v
           s == Otf!switchvar(v)
<1>1. i \in 0 .. num_vars /\ num_vars \in i + 1 .. num_vars
  BY DEF Counted, FormVars
<1>2. PICK m \in Nat \ {0} : Otf!Pow(num_events)[num_vars] = m * (num_events * s)
  BY <1>1, PowDivides DEF Otf!switchvar
<1>3. s \in Nat \ {0} /\ num_events \in Nat \ {0}
  BY SwitchvarType DEF Counted
<1> HIDE DEF s
<1>4. m * (num_events * s) = (m * num_events) * s
  BY <1>3
<1>5. m * num_events \in Nat \ {0}
  BY <1>3, ProductBound
<1>6. ((m * num_events) * s - 1) \div s = m * num_events - 1
  BY <1>3, <1>5, BeforeMultiple
<1>7. (m * num_events - 1) % num_events = num_events - 1
  BY <1>3, BeforeMultiple
<1>8. ((Otf!Pow(num_events)[num_vars] - 1) \div s) % num_events = num_events - 1
  BY <1>2, <1>4, <1>6, <1>7
<1> QED BY <1>3, <1>8 DEF Digit, s

\* A smaller number comes before a larger one.
LEMMA DigitsInOrder ==
  ASSUME Counted, NEW a \in Nat, NEW b \in Nat, a < b, b < Otf!Pow(num_events)[num_vars]
  PROVE  Otf!Before(Digits(a), Digits(b))
<1> DEFINE Q(c, v) == c \div Otf!switchvar(v)
           T == {v \in FormVars : Q(a, v) # Q(b, v)}
<1>1. num_vars \in T
  <2>1. Otf!switchvar(num_vars) = 1
    BY PowStep DEF Otf!switchvar, Counted
  <2>2. Q(a, num_vars) = a /\ Q(b, num_vars) = b
    BY <2>1
  <2> QED BY <2>2 DEF FormVars, Counted
<1>2. T \subseteq Nat
  BY DEF FormVars
<1>3. PICK v \in T : \A x \in T : v <= x
  <2> HIDE DEF T
  <2> QED BY <1>1, <1>2, LeastNat
<1>4. v \in FormVars /\ Q(a, v) # Q(b, v)
  OBVIOUS
<1>5. \A u \in 1 .. v - 1 : u \in FormVars /\ Q(a, u) = Q(b, u)
  <2> SUFFICES ASSUME NEW u \in 1 .. v - 1 PROVE u \in FormVars /\ Q(a, u) = Q(b, u)
    OBVIOUS
  <2>1. u \in FormVars /\ ~ (v <= u)
    BY <1>4 DEF FormVars, Counted
  <2>2. u \notin T
    BY <1>3, <2>1
  <2> QED BY <2>1, <2>2
<1>6. \A u \in 1 .. v - 1 : Digits(a)[u] = Digits(b)[u]
  BY <1>5 DEF Digits, Digit
<1>7. /\ Otf!switchvar(v) \in Nat \ {0} /\ num_events \in Nat \ {0}
      /\ Q(a, v) \in Nat /\ Q(b, v) \in Nat
  BY <1>4, SwitchvarType DEF Counted
<1>8. Q(a, v) < Q(b, v)
  <2>1. Q(a, v) <= Q(b, v)
    BY <1>7, QuotientMonotone
  <2> QED BY <1>4, <1>7, <2>1
<1>9. Q(a, v) \div num_events = Q(b, v) \div num_events
  <2>0. Otf!switchvar(v) = Otf!Pow(num_events)[num_vars - v]
    BY DEF Otf!switchvar
  <2>1. CASE v = 1
    <3>1. num_vars \in 1 .. num_vars
      BY DEF Counted
    <3>2. Otf!Pow(num_events)[num_vars] = num_events * Otf!switchvar(v)
      BY <2>0, <2>1, <3>1, PowStep
    <3>3. num_events * Otf!switchvar(v) \in Nat \ {0}
      BY <1>7, QuotientTwice
    <3>4. a \div (num_events * Otf!switchvar(v)) = 0 /\ b \div (num_events * Otf!switchvar(v)) = 0
      BY <3>2, <3>3, QuotientIs
    <3> QED BY <1>7, <3>4, QuotientTwice
  <2>2. CASE v # 1
    <3>1. v - 1 \in 1 .. v - 1 /\ num_vars - (v - 1) \in 1 .. num_vars
          /\ (num_vars - (v - 1)) - 1 = num_vars - v
      BY <1>4, <2>2 DEF FormVars, Counted
    <3>2. Otf!switchvar(v - 1) = num_events * Otf!switchvar(v)
      BY <2>0, <3>1, PowStep DEF Otf!switchvar
    <3>3. Q(a, v - 1) = Q(b, v - 1)
      BY <1>5, <3>1
    <3> QED BY <1>7, <3>2, <3>3, QuotientTwice
  <2> QED BY <2>1, <2>2
<1>10. Digits(a)[v] < Digits(b)[v]
  <2> DEFINE x == Q(a, v)
             y == Q(b, v)
  <2>1. x \in Nat /\ y \in Nat /\ x < y /\ x \div num_events = y \div num_events
    BY <1>7, <1>8, <1>9
  <2>2. Digits(a)[v] = (x % num_events) + 1 /\ Digits(b)[v] = (y % num_events) + 1
    BY <1>4 DEF Digits, Digit
  <2> HIDE DEF x, y
  <2>3. /\ x = (x \div num_events) * num_events + (x % num_events)
        /\ y = (y \div num_events) * num_events + (y % num_events)
        /\ x % num_events \in Int /\ y % num_events \in Int
        /\ (x \div num_events) * num_events \in Int
    BY <1>7, <2>1
  <2>4. x % num_events < y % num_events
    BY <2>1, <2>3
  <2> QED BY <2>2, <2>3, <2>4
<1> QED BY <1>4, <1>6, <1>10 DEF Otf!Before, Otf!FormVars, FormVars

\* Every instantiation is that of a number: the variables from the last back take
\* one power after another.
LEMMA DigitsReachAll ==
  ASSUME Counted, NEW inst \in [FormVars -> Events]
  PROVE  \E c \in 0 .. Otf!Pow(num_events)[num_vars] - 1 : Digits(c) = inst
<1> DEFINE P == Otf!Pow(num_events)
           Right(c, k) == \A v \in FormVars : v > num_vars - k => Digit(c, v) = inst[v]
           S == {k \in Nat : k <= num_vars => \E c \in Nat : c < P[k] /\ Right(c, k)}
<1>1. 0 \in S
  <2>1. 0 \in Nat /\ 0 < P[0]
    BY PowStep
  <2>2. Right(0, 0)
    BY DEF FormVars, Counted
  <2> QED BY <2>1, <2>2
<1>2. ASSUME NEW k \in Nat, k \in S PROVE k + 1 \in S
  <2> SUFFICES ASSUME k + 1 <= num_vars
               PROVE  \E c \in Nat : c < P[k + 1] /\ Right(c, k + 1)
    OBVIOUS
  <2>1. PICK c \in Nat : c < P[k] /\ Right(c, k)
    BY <1>2 DEF Counted
  <2> DEFINE w == num_vars - k
             x == inst[w] - 1
             d == x * P[k] + c
  <2>2. w \in FormVars /\ num_vars - w = k
    BY DEF FormVars, Counted
  <2>3. x \in 0 .. num_events - 1 /\ num_events \in Nat \ {0}
    BY <2>2 DEF Events, Counted
  <2>4. P[k] \in Nat \ {0}
    BY PowType DEF Counted
  <2>5. P[k + 1] = num_events * P[k]
    <3>1. k + 1 \in 1 .. num_vars /\ (k + 1) - 1 = k
      BY DEF Counted
    <3> QED BY <3>1, PowStep
  <2>6. Otf!switchvar(w) = P[k]
    BY <2>2 DEF Otf!switchvar
  <2> HIDE DEF P, x, w
  <2>7. d \in Nat
    BY <2>3, <2>4, ProductBound
  <2>8. d < P[k + 1]
    <3>1. (num_events - 1 - x) * P[k] \in Nat
      BY <2>3, <2>4, ProductBound
    <3>2. (num_events - 1 - x) * P[k] = num_events * P[k] - P[k] - x * P[k]
      BY <2>3, <2>4
    <3>3. num_events * P[k] \in Nat /\ x * P[k] \in Nat
      BY <2>3, <2>4, ProductBound
    <3> QED BY <2>1, <2>4, <2>5, <3>1, <3>2, <3>3
  <2>9. Digit(d, w) = inst[w]
    <3>1. c \div P[k] = 0
      BY <2>1, <2>4, QuotientIs
    <3>2. d \div P[k] = x
      <4>1. x \in Nat
        BY <2>3
      <4>2. d \div P[k] = x + (c \div P[k])
        BY <2>4, <4>1, QuotientShift, Zenon
      <4> QED BY <3>1, <4>1, <4>2
    <3>3. x % num_events = x
      BY <2>3
    <3>4. Digit(d, w) = x + 1
      BY <2>6, <3>2, <3>3 DEF Digit
    <3> QED BY <2>2, <2>3, <3>4 DEF x, Events
  <2>10. ASSUME NEW v \in FormVars, v > w PROVE Digit(d, v) = inst[v]
    <3> DEFINE s == Otf!switchvar(v)
    <3>1. num_vars - v \in 0 .. num_vars /\ k \in (num_vars - v) + 1 .. num_vars
      BY <2>10 DEF FormVars, Counted, w
    <3>2. PICK m \in Nat \ {0} : P[k] = m * (num_events * s)
      BY <3>1, PowDivides DEF Otf!switchvar, P
    <3>3. s \in Nat \ {0}
      BY SwitchvarType
    <3> HIDE DEF s
    <3>4. x * P[k] = ((x * m) * num_events) * s
      <4>1. m * (num_events * s) = (m * num_events) * s
        BY <2>3, <3>3
      <4>2. x * ((m * num_events) * s) = ((x * m) * num_events) * s
        BY <2>3, <3>3
      <4> QED BY <3>2, <4>1, <4>2
    <3>5. x * m \in Nat /\ (x * m) * num_events \in Nat
      BY <2>3, ProductBound
    <3>6. d \div s = (x * m) * num_events + (c \div s)
      <4>1. (((x * m) * num_events) * s + c) \div s = (x * m) * num_events + (c \div s)
        BY <3>3, <3>5, QuotientShift, Zenon
      <4> QED BY <3>4, <4>1
    <3>7. c \div s \in Nat
      BY <3>3
    <3>8. ((x * m) * num_events + (c \div s)) % num_events = (c \div s) % num_events
      <4> DEFINE y == x * m
                 z == c \div s
      <4>1. y \in Nat /\ z \in Nat /\ num_events \in Nat \ {0}
        BY <2>3, <3>5, <3>7
      <4> HIDE DEF y, z
      <4>2. (y * num_events + z) % num_events = z % num_events
        BY <4>1, QuotientShift, Zenon
      <4> QED BY <4>2 DEF y, z
    <3>9. Digit(d, v) = Digit(c, v)
      BY <3>6, <3>8 DEF Digit, s
    <3> QED BY <2>1, <2>10, <3>9 DEF w
  <2>11. Right(d, k + 1)
    <3> SUFFICES ASSUME NEW v \in FormVars, v > num_vars - (k + 1)
                 PROVE  Digit(d, v) = inst[v]
      OBVIOUS
    <3>1. v = w \/ v > w
      BY DEF FormVars, Counted, w
    <3> QED BY <2>9, <2>10, <3>1
  <2> HIDE DEF d
  <2> QED BY <2>7, <2>8, <2>11
<1>3. num_vars \in S
  <2> HIDE DEF S
  <2> QED BY <1>1, <1>2, NatSetInduction DEF Counted
<1>4. PICK c \in Nat : c < P[num_vars] /\ Right(c, num_vars)
  BY <1>3 DEF Counted
<1>5. \A v \in FormVars : Digit(c, v) = inst[v]
  BY <1>4 DEF FormVars, Counted
<1>6. Digits(c) = inst
  BY <1>5 DEF Digits
<1>7. P[num_vars] \in Nat
  BY PowType DEF Counted
<1>8. c \in 0 .. P[num_vars] - 1
  BY <1>4, <1>7
<1> QED BY <1>6, <1>8

\* Two numbers never show the same.
LEMMA DigitsDiffer ==
  ASSUME Counted, NEW a \in Nat, NEW b \in Nat, a < b, b < Otf!Pow(num_events)[num_vars]
  PROVE  Digits(a) # Digits(b)
<1>1. PICK v \in FormVars : Digits(a)[v] < Digits(b)[v]
  BY DigitsInOrder DEF Otf!Before, Otf!FormVars, FormVars
<1>2. Digits(a)[v] \in Int
  BY DigitsType DEF Events
<1> QED BY <1>1, <1>2

-----------------------------------------------------------------------------
(***************************************************************************)
(* The steps of the three pools that count.                                *)
(***************************************************************************)

Odometer == kind \in {"otf", "scoped"}

Last == Otf!Pow(num_events)[num_vars]

\* What the caller gets for the digits of a number, and back.
Give(inst) == CASE kind = "scoped" -> Scoped!WithScopes(inst)
                [] kind = "pregen" -> Mirrored(inst)
                [] OTHER           -> inst

Shown(inst) == CASE kind = "scoped" -> Scoped!PredicatesOf(inst)
                 [] kind = "pregen" -> Mirrored(inst)
                 [] OTHER           -> inst

Fits(inst) == allow_repetition \/ ~ HasDuplicates(inst)

Keeps == UNCHANGED <<kind, config, scope_of>>

\* The next number is given or skipped.
Counts == /\ ~ drained /\ traversal_var < Last
          /\ traversal_var' = traversal_var + 1
          /\ \/ /\ Fits(Digits(traversal_var))
                /\ returned' = Append(returned, Give(Digits(traversal_var)))
             \/ ~ Fits(Digits(traversal_var)) /\ returned' = returned
          /\ Keeps /\ UNCHANGED <<drained, pass>>

Ends == /\ ~ drained /\ traversal_var >= Last
        /\ drained' = TRUE
        /\ Keeps /\ UNCHANGED <<traversal_var, returned, pass>>

Resets == /\ drained
          /\ traversal_var' = 0
          /\ returned' = <<>>
          /\ drained' = FALSE
          /\ pass < MaxPasses /\ pass' = pass + 1
          /\ Keeps

\* A step that only fills the vector, or none.
Waits == Keeps /\ UNCHANGED traversal

\* The counts and settings.
Configured == /\ Counted
              /\ num_events \in EventCounts /\ num_vars \in VarCounts
              /\ pass \in 1 .. MaxPasses
              /\ allow_repetition \in BOOLEAN
              /\ drained \in BOOLEAN

ScopesKnown == kind = "scoped" => scope_of \in [Events -> Scopes]

\* A pair is made of its two parts.
LEMMA PairIs ==
  ASSUME NEW A, NEW B, NEW pair \in A \X B
  PROVE  pair = <<pair[1], pair[2]>>
OBVIOUS

\* The scopes a map holds are never taken for predicates that repeat.
LEMMA ScopesDoNotRepeat ==
  ASSUME Configured, scope_of \in [Events -> Scopes],
         NEW inst \in [FormVars -> Events]
  PROVE  /\ Scoped!RepeatsAPredicate(Scoped!WithScopes(inst)) <=> HasDuplicates(inst)
         /\ Scoped!PredicatesOf(Scoped!WithScopes(inst)) = inst
<1> DEFINE W == Scoped!WithScopes(inst)
           K == {"", "scope_"} \X FormVars
<1>1. W = [key \in K |-> IF key[1] = "scope_" THEN scope_of[inst[key[2]]] ELSE inst[key[2]]]
  BY DEF Scoped!WithScopes, Scoped!Keys, Scoped!FormVars, FormVars
<1>2. \A v \in FormVars : /\ <<"", v>> \in K
                          /\ W[<<"", v>>] = inst[v]
                          /\ ~ (inst[v] < 0)
  <2> SUFFICES ASSUME NEW v \in FormVars
               PROVE  <<"", v>> \in K /\ W[<<"", v>>] = inst[v] /\ ~ (inst[v] < 0)
    OBVIOUS
  <2>1. <<"", v>> \in K /\ <<"", v>>[1] = "" /\ <<"", v>>[2] = v
    OBVIOUS
  <2>2. inst[v] \in Events
    OBVIOUS
  <2>3. ~ (inst[v] < 0)
    BY <2>2 DEF Events, Configured, Counted
  <2> HIDE DEF W, K
  <2> QED BY <2>1, <2>3, <1>1
<1>3. \A key \in K : key[1] = "scope_" => W[key] < 0
  <2> SUFFICES ASSUME NEW key \in K, key[1] = "scope_" PROVE W[key] < 0
    OBVIOUS
  <2>1. key[2] \in FormVars
    OBVIOUS
  <2>2. inst[key[2]] \in Events
    BY <2>1
  <2>3. scope_of[inst[key[2]]] \in Scopes
    BY <2>2
  <2> HIDE DEF W, K
  <2> QED BY <2>3, <1>1, ScopesAssumption
<1>4. \A key \in K : key[1] # "scope_" => key = <<"", key[2]>> /\ key[2] \in FormVars
  <2> SUFFICES ASSUME NEW key \in K, key[1] # "scope_"
               PROVE  key = <<"", key[2]>> /\ key[2] \in FormVars
    OBVIOUS
  <2>1. key[1] \in {"", "scope_"} /\ key[2] \in FormVars
    OBVIOUS
  <2>2. key = <<key[1], key[2]>>
    BY PairIs, Zenon
  <2> HIDE DEF K
  <2> QED BY <2>1, <2>2
<1> HIDE DEF W
<1>5. ASSUME HasDuplicates(inst)
      PROVE  \E j, k \in K : j # k /\ W[j] = W[k] /\ ~ (W[k] < 0)
  <2>1. PICK u, v \in FormVars : u # v /\ inst[u] = inst[v]
    BY <1>5 DEF HasDuplicates
  <2>2. <<"", u>> # <<"", v>>
    BY <2>1
  <2> HIDE DEF K
  <2> QED BY <1>2, <2>1, <2>2
<1>6. ASSUME NEW j \in K, NEW k \in K, j # k, W[j] = W[k], ~ (W[k] < 0)
      PROVE  HasDuplicates(inst)
  <2> HIDE DEF K
  <2>1. j[1] # "scope_" /\ k[1] # "scope_"
    BY <1>3, <1>6
  <2>2. /\ j = <<"", j[2]>> /\ j[2] \in FormVars
        /\ k = <<"", k[2]>> /\ k[2] \in FormVars
    BY <1>4, <2>1
  <2>3. inst[j[2]] = inst[k[2]] /\ j[2] # k[2]
    BY <1>2, <1>6, <2>2
  <2> QED BY <2>2, <2>3 DEF HasDuplicates
<1>7. Scoped!RepeatsAPredicate(W) <=> \E j, k \in K : j # k /\ W[j] = W[k] /\ ~ (W[k] < 0)
  BY DEF Scoped!RepeatsAPredicate, Scoped!IsScope, Scoped!Keys, Scoped!FormVars, FormVars
<1>8. Scoped!PredicatesOf(W) = inst
  BY <1>2 DEF Scoped!PredicatesOf, Scoped!FormVars, FormVars
<1> HIDE DEF K
<1> QED BY <1>5, <1>6, <1>7, <1>8 DEF W

\* Read backwards twice, an instantiation is itself; and it repeats an event in either
\* direction.
LEMMA MirroredTwice ==
  ASSUME Counted, NEW inst \in [FormVars -> Events]
  PROVE  /\ Mirrored(Mirrored(inst)) = inst
         /\ HasDuplicates(Mirrored(inst)) <=> HasDuplicates(inst)
<1> DEFINE m(v) == num_vars - v + 1
<1>1. \A v \in FormVars : m(v) \in FormVars /\ m(m(v)) = v
  BY DEF FormVars, Counted
<1>2. \A v \in FormVars : Mirrored(inst)[v] = inst[m(v)]
  BY DEF Mirrored
<1>3. Mirrored(Mirrored(inst)) = [v \in FormVars |-> Mirrored(inst)[m(v)]]
  BY DEF Mirrored
<1> HIDE DEF m
<1>4. Mirrored(Mirrored(inst)) = inst
  BY <1>1, <1>2, <1>3
<1>5. ASSUME HasDuplicates(inst) PROVE HasDuplicates(Mirrored(inst))
  <2>1. PICK u, v \in FormVars : u # v /\ inst[u] = inst[v]
    BY <1>5 DEF HasDuplicates
  <2>2. m(u) # m(v) /\ Mirrored(inst)[m(u)] = inst[u] /\ Mirrored(inst)[m(v)] = inst[v]
    BY <1>1, <1>2, <2>1
  <2> QED BY <1>1, <2>1, <2>2 DEF HasDuplicates
<1>6. ASSUME HasDuplicates(Mirrored(inst)) PROVE HasDuplicates(inst)
  <2>1. PICK u, v \in FormVars : u # v /\ Mirrored(inst)[u] = Mirrored(inst)[v]
    BY <1>6 DEF HasDuplicates
  <2>2. m(u) # m(v) /\ inst[m(u)] = inst[m(v)]
    BY <1>1, <1>2, <2>1
  <2> QED BY <1>1, <2>2 DEF HasDuplicates
<1> QED BY <1>4, <1>5, <1>6

\* Every step of a pool with wheels moves the wheels, ends the pass or begins the next one.
LEMMA OdometerSteps ==
  ASSUME Configured, ScopesKnown, Odometer, traversal_var \in Nat, Next,
         Otf!Turned = Digits(traversal_var)
  PROVE  \/ Counts /\ mapto' = Otf!Turned
         \/ (Ends \/ Resets) /\ mapto' = mapto
<1>0. /\ traversal_var < Last <=> ~ Otf!AllSeen
      /\ traversal_var >= Last <=> Otf!AllSeen
  <2>1. Last \in Nat
    BY PowType DEF Last, Configured, Counted
  <2> QED BY <2>1 DEF Last, Otf!AllSeen
<1> DEFINE T == Digits(traversal_var)
<1>1. CASE OtfNext
  <2>0. /\ Otf!HasDuplicates(T) <=> HasDuplicates(T)
        /\ kind = "otf" /\ kind' = kind /\ scope_of' = scope_of
        /\ Give(T) = T
    BY <1>1 DEF Otf!HasDuplicates, HasDuplicates, Otf!FormVars, FormVars, OtfNext, Give
  <2> USE <1>0, <2>0 DEF Keeps, config, Otf!config
  <2> HIDE DEF T
  <2>5. Otf!Turned = T
    BY DEF T
  <2>1. CASE Otf!ReturnNext
    BY <2>1, <2>5 DEF Otf!ReturnNext, Counts, Fits, T
  <2>2. CASE Otf!SkipDuplicates
    BY <2>2, <2>5 DEF Otf!SkipDuplicates, Counts, Fits, T
  <2>3. CASE Otf!ReturnNull
    BY <2>3 DEF Otf!ReturnNull, Ends
  <2>4. CASE Otf!ResetInstantiations
    BY <2>4 DEF Otf!ResetInstantiations, Otf!ResetCounter, Resets
  <2> QED BY <1>1, <2>1, <2>2, <2>3, <2>4 DEF OtfNext, Otf!Next
<1>2. CASE ScopedNext
  <2>0. Scoped!Turned = Otf!Turned /\ (Scoped!AllSeen <=> Otf!AllSeen)
    BY DEF Scoped!Turned, Otf!Turned, Scoped!AllSeen, Otf!AllSeen, Scoped!switchvar,
           Otf!switchvar, Scoped!Pow, Otf!Pow, Scoped!FormVars, Otf!FormVars,
           Scoped!Successor, Otf!Successor
  <2>5. kind = "scoped" /\ kind' = kind /\ scope_of \in [Events -> Scopes]
    BY <1>2 DEF ScopedNext, ScopesKnown
  <2>6. T \in [FormVars -> Events]
    BY DigitsType DEF Configured
  <2>7. /\ Scoped!RepeatsAPredicate(Scoped!WithScopes(T)) <=> HasDuplicates(T)
        /\ Give(T) = Scoped!WithScopes(T)
    BY <2>5, <2>6, ScopesDoNotRepeat DEF Give
  <2> HIDE DEF T
  <2>8. Scoped!Turned = T /\ Otf!Turned = T
    BY <2>0 DEF T
  <2> USE <1>0, <2>0, <2>5, <2>7, <2>8 DEF Keeps, config, Scoped!config
  <2>1. CASE Scoped!ReturnScoped
    BY <2>1 DEF Scoped!ReturnScoped, Counts, Fits, T
  <2>2. CASE Scoped!SkipRepetition
    BY <2>2 DEF Scoped!SkipRepetition, Counts, Fits, T
  <2>3. CASE Scoped!ReturnNull /\ UNCHANGED scope_of
    BY <2>3 DEF Scoped!ReturnNull, Ends
  <2>4. CASE Scoped!ResetInstantiations /\ UNCHANGED scope_of
    BY <2>4 DEF Scoped!ResetInstantiations, Scoped!ResetCounter, Resets
  <2> QED BY <1>2, <2>1, <2>2, <2>3, <2>4 DEF ScopedNext, Scoped!NextScoped
<1>3. CASE PregenNext \/ ConstNext
  BY <1>3 DEF Odometer, PregenNext, ConstNext
<1> QED BY <1>1, <1>2, <1>3 DEF Next

-----------------------------------------------------------------------------
(***************************************************************************)
(* The invariant.                                                          *)
(***************************************************************************)

Wheels == mapto = IF traversal_var = 0 THEN [v \in FormVars |-> num_events]
                  ELSE Digits(traversal_var - 1)

Outcomes == {Give(inst) : inst \in [FormVars -> Events]}

SoFar(t) == {Give(Digits(c)) : c \in {d \in 0 .. t - 1 : Fits(Digits(d))}}

HandedOut == {returned[n] : n \in DOMAIN returned}

\* What was handed out is what the numbers below the counter stand for.
CountInv == kind # "const" => /\ traversal_var \in 0 .. Last
                              /\ drained => traversal_var = Last
                              /\ returned \in Seq(Outcomes)
                              /\ HandedOut = SoFar(traversal_var)
                              /\ ReturnedInOrder

WheelsInv == Odometer => Wheels

\* The vector holds, at each position, the digits of its number from the last one on; the
\* level being filled is one ahead before pos.  Run is the length of its runs, and
\* switch_var says how much of the run is left.
Column(p, k) == [l \in 1 .. k |-> Digit(p - 1, num_vars - l + 1)]

Level(p) == IF lvl < num_vars /\ p < pos THEN lvl + 1 ELSE lvl

Run == Otf!Pow(num_events)[lvl]

Runs == IF pos = 1 THEN event_iterator = 1 /\ switch_var = Run
        ELSE /\ event_iterator = Digit(pos - 2, num_vars - lvl)
             /\ switch_var = Run - 1 - ((pos - 2) % Run)

FillInv == kind = "pregen" => /\ lvl \in 0 .. num_vars
                              /\ pos \in 1 .. Last + 1
                              /\ DOMAIN inst_pool = 1 .. Last
                              /\ inst_pool = [p \in 1 .. Last |-> Column(p, Level(p))]
                              /\ lvl < num_vars => traversal_var = 0
                              /\ lvl = num_vars => pos = 1
                              /\ Runs

ConstInv == kind = "const" =>
  /\ traversal_var \in {0, 1}
  /\ returned = IF traversal_var = 0 THEN <<>> ELSE <<Const!instantiation>>
  /\ drained => traversal_var = 1

PoolInv == /\ kind \in {"otf", "scoped", "pregen", "const"}
           /\ Configured /\ ScopesKnown
           /\ CountInv /\ WheelsInv /\ FillInv
           /\ ConstInv

\* Turned once more, the wheels show the counter.
LEMMA TurnedIsNext ==
  ASSUME Counted, traversal_var \in Nat, Wheels
  PROVE  Otf!Turned = Digits(traversal_var)
<1> DEFINE t == traversal_var
           Turn(v) == IF t % Otf!switchvar(v) = 0 THEN Otf!Successor(mapto[v]) ELSE mapto[v]
<1>1. Otf!Turned = [v \in FormVars |-> Turn(v)]
  BY DEF Otf!Turned, Otf!FormVars, FormVars
<1>2. ASSUME NEW v \in FormVars PROVE Turn(v) = Digit(t, v)
  <2> DEFINE s == Otf!switchvar(v)
             n == num_events
  <2>1. s \in Nat \ {0} /\ n \in Nat \ {0}
    BY SwitchvarType DEF Counted
  <2>2. CASE t = 0
    <3>1. mapto[v] = n
      BY <2>2 DEF Wheels
    <3> HIDE DEF s
    <3>2. t % s = 0 /\ t \div s = 0 /\ 0 % n = 0
      BY <2>1, <2>2
    <3>3. Turn(v) = 1
      BY <3>1, <3>2 DEF Otf!Successor, s
    <3>4. Digit(t, v) = 1
      BY <3>2 DEF Digit, s
    <3> QED BY <3>3, <3>4
  <2>3. CASE t # 0
    <3> DEFINE a == t - 1
               q == a \div s
    <3>1. a \in Nat /\ a + 1 = t
      BY <2>3
    <3>2. mapto[v] = (q % n) + 1
      BY <2>3 DEF Wheels, Digits, Digit
    <3> HIDE DEF a, s
    <3>3. q \in Nat
      BY <2>1, <3>1
    <3>4. t \div s = IF t % s = 0 THEN q + 1 ELSE q
      BY <2>1, <3>1, QuotientMoves
    <3> HIDE DEF q, n, t
    <3>5. q % n \in 0 .. n - 1 /\ (q + 1) % n = IF q % n = n - 1 THEN 0 ELSE (q % n) + 1
      BY <2>1, <3>3, RemainderMoves
    <3>6. Digit(t, v) = ((t \div s) % n) + 1
      BY DEF Digit, s, n
    <3>7. Turn(v) = IF t % s = 0 THEN IF mapto[v] = n THEN 1 ELSE mapto[v] + 1 ELSE mapto[v]
      BY DEF Otf!Successor, s, n
    <3> HIDE DEF Turn
    <3>8. CASE t % s = 0
      <4>1. Turn(v) = IF q % n = n - 1 THEN 1 ELSE (q % n) + 2
        BY <2>1, <3>2, <3>5, <3>7, <3>8
      <4>2. Digit(t, v) = IF q % n = n - 1 THEN 1 ELSE (q % n) + 2
        BY <2>1, <3>4, <3>5, <3>6, <3>8
      <4> QED BY <4>1, <4>2
    <3>9. CASE t % s # 0
      BY <3>2, <3>4, <3>6, <3>7, <3>9
    <3> QED BY <3>8, <3>9
  <2> QED BY <2>2, <2>3
<1> HIDE DEF Turn, t
<1>3. Otf!Turned = [v \in FormVars |-> Digit(t, v)]
  BY <1>1, <1>2
<1> QED BY <1>3 DEF Digits, t

\* A step that leaves the settings alone leaves what the numbers stand for.
LEMMA SameNumbers ==
  ASSUME Keeps
  PROVE  /\ \A c : Digits(c)' = Digits(c)
         /\ Last' = Last
         /\ FormVars' = FormVars /\ Events' = Events
<1>1. num_events' = num_events /\ num_vars' = num_vars
  BY DEF Keeps, config
<1>2. Otf!Pow(num_events)' = Otf!Pow(num_events)
  BY <1>1 DEF Otf!Pow
<1>3. FormVars' = FormVars /\ Events' = Events
  BY <1>1 DEF FormVars, Events
<1>4. \A v : Otf!switchvar(v)' = Otf!switchvar(v)
  BY <1>1, <1>2 DEF Otf!switchvar
<1>5. \A c, v : Digit(c, v)' = Digit(c, v)
  BY <1>1, <1>4 DEF Digit
<1>6. \A c : Digits(c)' = Digits(c)
  BY <1>3, <1>5 DEF Digits
<1> QED BY <1>1, <1>2, <1>3, <1>6 DEF Last

\* And what the caller is given for them.
LEMMA SameGifts ==
  ASSUME Keeps
  PROVE  /\ Outcomes' = Outcomes
         /\ \A t : SoFar(t)' = SoFar(t)
         /\ \A k : InOrder(returned[k], returned[k + 1])' <=>
                    InOrder(returned'[k], returned'[k + 1])
<1>1. /\ num_vars' = num_vars /\ allow_repetition' = allow_repetition
      /\ kind' = kind /\ scope_of' = scope_of
      /\ FormVars' = FormVars /\ Events' = Events
  BY SameNumbers DEF Keeps, config
<1>2. \A inst : Give(inst)' = Give(inst)
  BY <1>1 DEF Give, Mirrored, Scoped!WithScopes, Scoped!Keys, Scoped!FormVars
<1>3. \A c : Give(Digits(c))' = Give(Digits(c))
  BY <1>1, SameNumbers DEF Give, Mirrored, Scoped!WithScopes, Scoped!Keys, Scoped!FormVars
<1>4. \A c : Fits(Digits(c))' = Fits(Digits(c))
  BY <1>1, SameNumbers DEF Fits, HasDuplicates
<1>5. Outcomes' = Outcomes
  BY <1>1, <1>2 DEF Outcomes
<1>6. \A t : SoFar(t)' = SoFar(t)
  BY <1>3, <1>4 DEF SoFar
<1>7. \A k : InOrder(returned[k], returned[k + 1])' <=>
             InOrder(returned'[k], returned'[k + 1])
  BY <1>1 DEF InOrder, Otf!Before, Otf!FormVars, FormVars, Scoped!PredicatesOf,
              Scoped!FormVars, Mirrored
<1> QED BY <1>5, <1>6, <1>7


\* What is given for a number is an outcome, and shows the number again.
LEMMA GiftOfNumber ==
  ASSUME PoolInv, NEW c \in Nat
  PROVE  Give(Digits(c)) \in Outcomes /\ Shown(Give(Digits(c))) = Digits(c)
<1>1. Digits(c) \in [FormVars -> Events]
  BY DigitsType DEF PoolInv, Configured
<1>2. Give(Digits(c)) \in Outcomes
  BY <1>1 DEF Outcomes
<1>3. CASE kind = "scoped"
  BY <1>1, <1>2, <1>3, ScopesDoNotRepeat DEF Give, Shown, PoolInv, ScopesKnown
<1>4. CASE kind = "pregen"
  BY <1>1, <1>2, <1>4, MirroredTwice DEF Give, Shown, PoolInv, Configured
<1>5. CASE kind \notin {"scoped", "pregen"}
  BY <1>2, <1>5 DEF Give, Shown
<1> QED BY <1>3, <1>4, <1>5

\* What is given for a smaller number comes before what is given for a larger one.
LEMMA GiftsInOrder ==
  ASSUME PoolInv, kind # "const", NEW a \in Nat, NEW b \in Nat, a < b, b < Last
  PROVE  InOrder(Give(Digits(a)), Give(Digits(b))) /\ Give(Digits(a)) # Give(Digits(b))
<1>1. Otf!Before(Digits(a), Digits(b)) /\ Digits(a) # Digits(b)
  BY DigitsInOrder, DigitsDiffer DEF PoolInv, Configured, Last
<1>2. Shown(Give(Digits(a))) = Digits(a) /\ Shown(Give(Digits(b))) = Digits(b)
  BY GiftOfNumber
<1>3. Otf!Before(Shown(Give(Digits(a))), Shown(Give(Digits(b))))
  BY <1>1, <1>2
<1>4. InOrder(Give(Digits(a)), Give(Digits(b)))
  <2>1. CASE kind = "otf"
    BY <1>3, <2>1 DEF InOrder, Shown
  <2>2. CASE kind = "scoped"
    BY <1>3, <2>2 DEF InOrder, Shown
  <2>3. CASE kind = "pregen"
    BY <1>3, <2>3 DEF InOrder, Shown
  <2> QED BY <2>1, <2>2, <2>3 DEF PoolInv
<1> QED BY <1>1, <1>2, <1>4

-----------------------------------------------------------------------------
(***************************************************************************)
(* Each kind of step keeps what is said of the counter.                    *)
(***************************************************************************)

\* A number given or skipped.
LEMMA CountsKeep ==
  ASSUME PoolInv, kind # "const", Counts
  PROVE  CountInv'
<1> DEFINE t == traversal_var
           gift == Give(Digits(t))
<1>1. /\ t \in Nat /\ t < Last /\ ~ drained
      /\ returned \in Seq(Outcomes) /\ HandedOut = SoFar(t) /\ ReturnedInOrder
      /\ Last \in Nat
  BY PowType DEF PoolInv, CountInv, Configured, Counts, Last, Counted
<1>3. traversal_var' = t + 1 /\ drained' = drained /\ Keeps
  BY DEF Counts
<1>4. Last' = Last /\ Outcomes' = Outcomes
  BY <1>3, SameNumbers, SameGifts
<1>5. traversal_var' \in 0 .. Last'
  BY <1>1, <1>3, <1>4
<1>7. SoFar(traversal_var)' = IF Fits(Digits(t)) THEN SoFar(t) \cup {gift} ELSE SoFar(t)
  <2>1. 0 .. (t + 1) - 1 = (0 .. t - 1) \cup {t}
    BY <1>1
  <2>2. SoFar(t + 1) = IF Fits(Digits(t)) THEN SoFar(t) \cup {gift} ELSE SoFar(t)
    BY <2>1 DEF SoFar
  <2>3. SoFar(traversal_var)' = SoFar(t + 1)
    BY <1>3, SameGifts DEF SoFar
  <2> QED BY <2>2, <2>3
<1>8. CASE Fits(Digits(t)) /\ returned' = Append(returned, gift)
  <2> DEFINE n == Len(returned)
  <2>1. gift \in Outcomes
    BY <1>1, GiftOfNumber
  <2>2. /\ returned' \in Seq(Outcomes) /\ Len(returned') = n + 1 /\ n \in Nat
        /\ DOMAIN returned = 1 .. n /\ DOMAIN returned' = 1 .. n + 1
        /\ \A k \in 1 .. n : returned'[k] = returned[k]
        /\ returned'[n + 1] = gift
    BY <1>1, <1>8, <2>1
  <2>3. HandedOut' = HandedOut \cup {gift}
    BY <2>2 DEF HandedOut
  <2>4. ReturnedInOrder'
    <3>0. Len(returned') - 1 = n /\ n \in Nat
      BY <2>2
    <3> SUFFICES ASSUME NEW k \in 1 .. n PROVE InOrder(returned[k], returned[k + 1])'
      BY <3>0 DEF ReturnedInOrder
    <3> HIDE DEF n, gift, t
    <3> SUFFICES InOrder(returned'[k], returned'[k + 1])
      BY <1>3, SameGifts
    <3>1. CASE k # n
      <4>1. k \in 1 .. n - 1 /\ k + 1 \in 1 .. n
        BY <3>0, <3>1
      <4>2. InOrder(returned[k], returned[k + 1])
        BY <1>1, <4>1 DEF ReturnedInOrder, n
      <4> QED BY <2>2, <4>1, <4>2
    <3>2. CASE k = n
      <4>1. returned[n] \in SoFar(t)
        BY <1>1, <2>2, <3>2 DEF HandedOut
      <4>2. PICK c \in 0 .. t - 1 : returned[n] = Give(Digits(c))
        BY <4>1 DEF SoFar
      <4>3. c \in Nat /\ c < t
        BY <1>1
      <4>4. InOrder(Give(Digits(c)), gift)
        BY <1>1, <4>3, GiftsInOrder DEF gift
      <4> QED BY <2>2, <3>2, <4>2, <4>4
    <3> QED BY <3>1, <3>2
  <2> QED BY <1>1, <1>3, <1>4, <1>5, <1>7, <1>8, <2>2, <2>3, <2>4 DEF CountInv
<1>9. CASE ~ Fits(Digits(t)) /\ returned' = returned
  <2>1. HandedOut' = HandedOut
    BY <1>9 DEF HandedOut
  <2>2. ReturnedInOrder'
    BY <1>1, <1>3, <1>9, SameGifts DEF ReturnedInOrder
  <2> QED BY <1>1, <1>3, <1>4, <1>5, <1>7, <1>9, <2>1, <2>2 DEF CountInv
<1> QED BY <1>8, <1>9 DEF Counts

\* NULL at the end of a pass, or a step that gives nothing.
LEMMA EndsKeep ==
  ASSUME PoolInv, kind # "const", Ends \/ Waits
  PROVE  CountInv'
<1>1. /\ traversal_var \in 0 .. Last /\ Last \in Nat /\ (drained => traversal_var = Last)
      /\ returned \in Seq(Outcomes) /\ HandedOut = SoFar(traversal_var) /\ ReturnedInOrder
  BY PowType DEF PoolInv, CountInv, Configured, Last, Counted
<1>2. /\ traversal_var' = traversal_var /\ returned' = returned /\ Keeps
      /\ drained' => traversal_var = Last
  BY <1>1 DEF Ends, Waits, traversal
<1>3. Last' = Last /\ Outcomes' = Outcomes
  BY <1>2, SameNumbers, SameGifts
<1>5. HandedOut' = SoFar(traversal_var)'
  <2>1. HandedOut' = HandedOut
    BY <1>2 DEF HandedOut
  <2>2. SoFar(traversal_var)' = SoFar(traversal_var)
    BY <1>2, SameGifts DEF SoFar
  <2> QED BY <1>1, <2>1, <2>2
<1>6. ReturnedInOrder'
  BY <1>1, <1>2, SameGifts DEF ReturnedInOrder
<1> QED BY <1>1, <1>2, <1>3, <1>5, <1>6 DEF CountInv

\* A reset.
LEMMA ResetsKeep ==
  ASSUME PoolInv, kind # "const", Resets
  PROVE  CountInv'
<1>1. Last \in Nat \ {0}
  BY PowType DEF PoolInv, Configured, Last, Counted
<1>2. traversal_var' = 0 /\ returned' = <<>> /\ drained' = FALSE /\ Keeps
  BY DEF Resets
<1>3. Last' = Last
  BY <1>2, SameNumbers
<1>6. HandedOut' = {} /\ SoFar(traversal_var)' = {}
  BY <1>2 DEF HandedOut, SoFar
<1>7. ReturnedInOrder' /\ returned' \in Seq(Outcomes')
  BY <1>2 DEF ReturnedInOrder
<1> QED BY <1>1, <1>2, <1>3, <1>6, <1>7 DEF CountInv

\* The wheels turn with the counter; a reset leaves them where the last number of the pass
\* left them, at the last event.
LEMMA WheelsKept ==
  ASSUME PoolInv, Odometer, Keeps,
         \/ mapto' = Digits(traversal_var) /\ traversal_var' = traversal_var + 1
         \/ mapto' = mapto /\ traversal_var' = traversal_var
         \/ mapto' = mapto /\ traversal_var' = 0 /\ drained
  PROVE  WheelsInv'
<1>1. /\ Wheels /\ Counted /\ traversal_var \in 0 .. Last /\ Last \in Nat \ {0}
      /\ drained => traversal_var = Last
  BY PowType DEF PoolInv, CountInv, WheelsInv, Configured, Last, Counted, Odometer
<1>2. FormVars' = FormVars /\ num_events' = num_events /\ \A c : Digits(c)' = Digits(c)
  BY SameNumbers DEF Keeps, config
<1>3. CASE mapto' = Digits(traversal_var) /\ traversal_var' = traversal_var + 1
  <2>1. (traversal_var + 1) - 1 = traversal_var /\ traversal_var + 1 # 0
    BY <1>1
  <2>2. mapto' = Digits((traversal_var + 1) - 1)
    BY <1>3, <2>1
  <2> QED BY <1>2, <1>3, <2>1, <2>2 DEF Wheels, WheelsInv, Digits
<1>4. CASE mapto' = mapto /\ traversal_var' = traversal_var
  <2>1. Digits(traversal_var - 1)' = Digits(traversal_var - 1)
    BY <1>2, <1>4 DEF Digits
  <2> QED BY <1>1, <1>2, <1>4, <2>1 DEF Wheels, WheelsInv
<1>5. CASE mapto' = mapto /\ traversal_var' = 0 /\ drained
  <2>1. mapto = Digits(Last - 1)
    BY <1>1, <1>5 DEF Wheels
  <2>2. \A v \in FormVars : Digit(Last - 1, v) = num_events
    BY <1>1, LastDigits DEF Last
  <2>3. mapto = [v \in FormVars |-> num_events]
    BY <2>1, <2>2 DEF Digits
  <2> QED BY <1>2, <1>5, <2>3 DEF Wheels, WheelsInv
<1> QED BY <1>3, <1>4, <1>5

-----------------------------------------------------------------------------
(***************************************************************************)
(* The vector of the pregenerated pool.                                    *)
(***************************************************************************)

\* A level beyond the first k is a digit further left.
LEMMA ColumnGrows ==
  ASSUME Counted, NEW p \in Nat \ {0}, NEW k \in Nat, k < num_vars
  PROVE  Append(Column(p, k), Digit(p - 1, num_vars - k)) = Column(p, k + 1)
<1> DEFINE D == {Digit(p - 1, v) : v \in Int}
           e == Digit(p - 1, num_vars - k)
           c(l) == Digit(p - 1, num_vars - l + 1)
<1>1. \A l \in 1 .. k + 1 : num_vars - l + 1 \in Int
  BY DEF Counted
<1>2. Column(p, k) = [l \in 1 .. k |-> c(l)] /\ Column(p, k + 1) = [l \in 1 .. k + 1 |-> c(l)]
  BY DEF Column
<1>3. num_vars - (k + 1) + 1 = num_vars - k
  BY DEF Counted
<1>4. c(k + 1) = e
  BY <1>3
<1>5. \A l \in 1 .. k + 1 : c(l) \in D
  BY <1>1
<1> HIDE DEF c, D, e
<1>6. Column(p, k) \in Seq(D) /\ Len(Column(p, k)) = k /\ e \in D
  BY <1>2, <1>4, <1>5
<1> DEFINE s == Append(Column(p, k), e)
<1>7. s = [l \in 1 .. k + 1 |-> s[l]]
  <2>1. s \in Seq(D) /\ Len(s) = k + 1
    BY <1>6
  <2>2. ASSUME NEW q \in Seq(D) PROVE q \in [1 .. Len(q) -> D]
    OBVIOUS
  <2>3. s \in [1 .. k + 1 -> D]
    BY <2>1, <2>2
  <2> HIDE DEF s
  <2> QED BY <2>3
<1>8. \A l \in 1 .. k + 1 : s[l] = c(l)
  BY <1>2, <1>4, <1>6
<1> HIDE DEF s
<1>9. s = [l \in 1 .. k + 1 |-> c(l)]
  BY <1>7, <1>8
<1> QED BY <1>2, <1>9 DEF s, e

\* A full column is what the pool gives for the number of its position.
LEMMA FullColumn ==
  ASSUME Counted, NEW c \in Nat
  PROVE  Column(c + 1, num_vars) = Mirrored(Digits(c))
<1>1. (c + 1) - 1 = c
  OBVIOUS
<1>2. \A v \in FormVars : num_vars - v + 1 \in FormVars
  BY DEF FormVars, Counted
<1>3. \A v \in FormVars : Digits(c)[num_vars - v + 1] = Digit(c, num_vars - v + 1)
  BY <1>2 DEF Digits
<1> QED BY <1>1, <1>3 DEF Column, Mirrored, FormVars

\* The next event of a level, and what is then left of its run.
LEMMA RunsGoOn ==
  ASSUME Counted, pos \in Nat \ {0}, lvl \in Nat, lvl < num_vars, Runs
  PROVE  /\ (IF switch_var = 0 THEN Otf!Successor(event_iterator) ELSE event_iterator)
              = Digit(pos - 1, num_vars - lvl)
         /\ (IF switch_var = 0 THEN Run ELSE switch_var) - 1 = Run - 1 - ((pos - 1) % Run)
<1> DEFINE w == num_vars - lvl
           R == Run
           n == num_events
<1>1. w \in FormVars /\ num_vars - w = lvl
  BY DEF FormVars, Counted
<1>2. Otf!switchvar(w) = R /\ R \in Nat \ {0} /\ n \in Nat \ {0}
  BY <1>1, SwitchvarType DEF Otf!switchvar, Run, Counted
<1>3. \A c : Digit(c, w) = ((c \div R) % n) + 1
  BY <1>2 DEF Digit
<1> HIDE DEF w, R, n
<1>4. CASE pos = 1
  <2>1. event_iterator = 1 /\ switch_var = R
    BY <1>4 DEF Runs, R
  <2>2. pos - 1 = 0 /\ 0 % R = 0 /\ 0 \div R = 0 /\ 0 % n = 0
    BY <1>2, <1>4
  <2>3. Digit(pos - 1, w) = 1
    BY <1>3, <2>2
  <2> QED BY <1>2, <2>1, <2>2, <2>3 DEF w, R
<1>5. CASE pos # 1
  <2> DEFINE a == pos - 2
             q == a \div R
             r == a % R
  <2>1. a \in Nat /\ a + 1 = pos - 1
    BY <1>5
  <2>2. event_iterator = Digit(a, w) /\ switch_var = R - 1 - r
    BY <1>5 DEF Runs, R, w
  <2> HIDE DEF a
  <2>3. q \in Nat
    BY <1>2, <2>1
  <2>4. r \in 0 .. R - 1 /\ (pos - 1) % R = IF r = R - 1 THEN 0 ELSE r + 1
    BY <1>2, <2>1, RemainderMoves
  <2>5. (pos - 1) \div R = IF (pos - 1) % R = 0 THEN q + 1 ELSE q
    BY <1>2, <2>1, QuotientMoves
  <2>6. event_iterator = (q % n) + 1
    BY <1>3, <2>2
  <2> HIDE DEF q, r
  <2>7. q % n \in 0 .. n - 1 /\ (q + 1) % n = IF q % n = n - 1 THEN 0 ELSE (q % n) + 1
    BY <1>2, <2>3, RemainderMoves
  <2>8. Digit(pos - 1, w) = (((pos - 1) \div R) % n) + 1
    BY <1>3
  <2>9. CASE r = R - 1
    <3>1. switch_var = 0 /\ (pos - 1) % R = 0 /\ (pos - 1) \div R = q + 1
      BY <1>2, <2>2, <2>4, <2>5, <2>9
    <3>2. Otf!Successor(event_iterator) = ((q + 1) % n) + 1
      BY <1>2, <2>6, <2>7 DEF Otf!Successor, n
    <3> QED BY <1>2, <2>8, <3>1, <3>2 DEF w, R
  <2>10. CASE r # R - 1
    <3>1. /\ switch_var # 0 /\ (pos - 1) % R = r + 1 /\ r + 1 # 0
          /\ (pos - 1) \div R = q
      BY <1>2, <2>2, <2>4, <2>5, <2>10
    <3>2. switch_var - 1 = R - 1 - (r + 1)
      BY <1>2, <2>2, <2>4
    <3> QED BY <2>6, <2>8, <3>1, <3>2 DEF w, R
  <2> QED BY <2>9, <2>10
<1> QED BY <1>4, <1>5

\* The sizes and runs of the vector are powers too.
LEMMA SamePow ==
  Pregen!Size = Last /\ \A l : Pregen!RunLength(l) = Otf!Pow(num_events)[l]
BY DEF Pregen!Size, Pregen!RunLength, Pregen!Pow, Otf!Pow, Last

\* One position of a level.
LEMMA FillPositionKeeps ==
  ASSUME PoolInv, kind = "pregen", Pregen!FillPosition, Keeps
  PROVE  FillInv'
<1> DEFINE e == Digit(pos - 1, num_vars - lvl)
<1>1. /\ lvl \in 0 .. num_vars /\ pos \in 1 .. Last + 1 /\ DOMAIN inst_pool = 1 .. Last
      /\ inst_pool = [p \in 1 .. Last |-> Column(p, Level(p))]
      /\ lvl < num_vars => traversal_var = 0
      /\ lvl = num_vars => pos = 1
      /\ Runs
  BY DEF PoolInv, FillInv
<1>2. Counted /\ Last \in Nat \ {0}
  BY PowType DEF PoolInv, Configured, Last, Counted
<1>3. lvl < num_vars /\ pos <= Last
  BY <1>1, <1>2, SamePow DEF Pregen!FillPosition, Pregen!Filled, Counted
<1>4. /\ lvl \in Nat /\ pos \in Nat \ {0} /\ pos \in 1 .. Last /\ Runs /\ traversal_var = 0
  BY <1>1, <1>2, <1>3
<1>5. /\ event_iterator' = e
      /\ switch_var' = Run - 1 - ((pos - 1) % Run)
  <2>1. Pregen!RunLength(lvl) = Run
    BY SamePow DEF Run
  <2> QED BY <1>2, <1>3, <1>4, <2>1, RunsGoOn DEF Pregen!FillPosition, Otf!Successor
<1>6. /\ inst_pool' = [inst_pool EXCEPT ![pos] = Append(@, e)]
      /\ pos' = pos + 1 /\ lvl' = lvl /\ traversal_var' = traversal_var
  BY <1>5 DEF Pregen!FillPosition, Pregen!traversal
<1>7. /\ Last' = Last /\ num_vars' = num_vars /\ num_events' = num_events
      /\ \A c, v : Digit(c, v)' = Digit(c, v)
      /\ \A p, k : Column(p, k)' = Column(p, k)
  <2>1. num_events' = num_events /\ num_vars' = num_vars
    BY DEF Keeps, config
  <2>2. Otf!Pow(num_events)' = Otf!Pow(num_events)
    BY <2>1 DEF Otf!Pow
  <2>3. \A c, v : Digit(c, v)' = Digit(c, v)
    BY <2>1, <2>2 DEF Digit, Otf!switchvar
  <2>4. \A p, k : Column(p, k)' = Column(p, k)
    BY <2>1, <2>3 DEF Column
  <2> QED BY <2>1, <2>2, <2>3, <2>4 DEF Last
<1> DEFINE Then(p) == IF p < pos + 1 THEN lvl + 1 ELSE lvl
<1>8. inst_pool' = [p \in 1 .. Last |-> Column(p, Then(p))]
  <2>1. \A p \in 1 .. Last : Level(p) = IF p < pos THEN lvl + 1 ELSE lvl
    BY <1>3 DEF Level
  <2>2. inst_pool[pos] = Column(pos, lvl)
    BY <1>1, <1>4, <2>1
  <2>3. Append(inst_pool[pos], e) = Column(pos, lvl + 1)
    BY <1>2, <1>3, <1>4, <2>2, ColumnGrows
  <2>4. inst_pool' = [p \in 1 .. Last |-> IF p = pos THEN Append(inst_pool[pos], e)
                                          ELSE inst_pool[p]]
    BY <1>1, <1>6
  <2>5. \A p \in 1 .. Last : (IF p = pos THEN Append(inst_pool[pos], e) ELSE inst_pool[p])
                                = Column(p, Then(p))
    <3> SUFFICES ASSUME NEW p \in 1 .. Last
                 PROVE  (IF p = pos THEN Append(inst_pool[pos], e) ELSE inst_pool[p])
                           = Column(p, Then(p))
      OBVIOUS
    <3>1. CASE p = pos
      <4>1. Then(p) = lvl + 1
        BY <1>4, <3>1
      <4> QED BY <2>3, <3>1, <4>1
    <3>2. CASE p # pos
      <4>1. Then(p) = Level(p)
        BY <1>4, <2>1, <3>2
      <4> HIDE DEF Then
      <4> QED BY <1>1, <3>2, <4>1
    <3> QED BY <3>1, <3>2
  <2> HIDE DEF Then, e
  <2> QED BY <2>4, <2>5
<1>9. \A p : Level(p)' = Then(p)
  BY <1>3, <1>6, <1>7 DEF Level
<1>10. inst_pool' = [p \in 1 .. Last |-> Column(p, Level(p))]'
  <2>1. \A p : Column(p, Level(p))' = Column(p, Then(p))
    BY <1>7, <1>9 DEF Column
  <2> HIDE DEF Then
  <2> QED BY <1>7, <1>8, <2>1
<1>11. Runs'
  <2>1. (pos + 1) - 2 = pos - 1 /\ pos + 1 # 1
    BY <1>4
  <2>2. Run' = Run
    BY <1>6, <1>7 DEF Run, Otf!Pow
  <2>3. Digit(pos - 2, num_vars - lvl)' = e
    <3>1. (pos - 2)' = pos - 1 /\ (num_vars - lvl)' = num_vars - lvl
      BY <1>6, <1>7, <2>1
    <3>2. num_events' = num_events /\ Otf!Pow(num_events)' = Otf!Pow(num_events)
      BY <1>7 DEF Otf!Pow
    <3> QED BY <1>7, <3>1, <3>2 DEF Digit, Otf!switchvar
  <2> HIDE DEF e
  <2> QED BY <1>5, <1>6, <2>1, <2>2, <2>3 DEF Runs
<1>12. DOMAIN inst_pool' = 1 .. Last'
  BY <1>1, <1>6, <1>7
<1>13. lvl' \in 0 .. num_vars' /\ pos' \in 1 .. Last' + 1
  BY <1>1, <1>2, <1>4, <1>6, <1>7
<1>14. lvl' # num_vars'
  BY <1>2, <1>3, <1>6, <1>7 DEF Counted
<1> QED BY <1>4, <1>6, <1>7, <1>10, <1>11, <1>12, <1>13, <1>14 DEF FillInv

\* On to the next level.
LEMMA NextLevelKeeps ==
  ASSUME PoolInv, kind = "pregen", Pregen!NextLevel, Keeps
  PROVE  FillInv'
<1>1. /\ lvl \in 0 .. num_vars /\ pos \in 1 .. Last + 1 /\ DOMAIN inst_pool = 1 .. Last
      /\ inst_pool = [p \in 1 .. Last |-> Column(p, Level(p))]
      /\ lvl < num_vars => traversal_var = 0
      /\ lvl = num_vars => pos = 1
      /\ Runs
  BY DEF PoolInv, FillInv
<1>2. Counted /\ Last \in Nat \ {0}
  BY PowType DEF PoolInv, Configured, Last, Counted
<1>3. lvl < num_vars /\ pos = Last + 1 /\ traversal_var = 0
  BY <1>1, <1>2, SamePow DEF Pregen!NextLevel, Pregen!Filled, Counted
<1>4. /\ lvl' = lvl + 1 /\ pos' = 1 /\ event_iterator' = 1
      /\ switch_var' = Otf!Pow(num_events)[lvl + 1]
      /\ inst_pool' = inst_pool /\ traversal_var' = traversal_var
  BY SamePow DEF Pregen!NextLevel, Pregen!traversal
<1>5. /\ Last' = Last /\ num_vars' = num_vars
      /\ Otf!Pow(num_events)' = Otf!Pow(num_events)
      /\ \A p, k : Column(p, k)' = Column(p, k)
  <2>1. num_events' = num_events /\ num_vars' = num_vars
    BY DEF Keeps, config
  <2>2. Otf!Pow(num_events)' = Otf!Pow(num_events)
    BY <2>1 DEF Otf!Pow
  <2>3. \A c, v : Digit(c, v)' = Digit(c, v)
    BY <2>1, <2>2 DEF Digit, Otf!switchvar
  <2>4. \A p, k : Column(p, k)' = Column(p, k)
    BY <2>1, <2>3 DEF Column
  <2> QED BY <2>1, <2>2, <2>4 DEF Last
<1>6. \A p \in 1 .. Last : Level(p) = lvl + 1 /\ Level(p)' = lvl + 1
  BY <1>1, <1>2, <1>3, <1>4, <1>5 DEF Level
<1>7. \A p \in 1 .. Last : Column(p, Level(p))' = Column(p, Level(p))
  BY <1>5, <1>6 DEF Column
<1>8. inst_pool' = [p \in 1 .. Last |-> Column(p, Level(p))]'
  BY <1>1, <1>4, <1>5, <1>7
<1>9. Runs'
  BY <1>4, <1>5 DEF Runs, Run
<1>10. lvl' \in 0 .. num_vars' /\ pos' \in 1 .. Last' + 1
  BY <1>1, <1>2, <1>3, <1>4, <1>5 DEF Counted
<1> QED BY <1>1, <1>3, <1>4, <1>5, <1>8, <1>9, <1>10 DEF FillInv

\* A vector that is full, or that a step leaves alone.
LEMMA FillingKept ==
  ASSUME PoolInv, Keeps, UNCHANGED filling,
         kind = "pregen" /\ lvl < num_vars => traversal_var' = 0
  PROVE  FillInv'
<1> SUFFICES ASSUME kind = "pregen" PROVE FillInv'
  BY DEF Keeps, FillInv
<1>1. /\ lvl \in 0 .. num_vars /\ pos \in 1 .. Last + 1 /\ DOMAIN inst_pool = 1 .. Last
      /\ inst_pool = [p \in 1 .. Last |-> Column(p, Level(p))]
      /\ lvl < num_vars => traversal_var = 0
      /\ lvl = num_vars => pos = 1
      /\ Runs
  BY DEF PoolInv, FillInv
<1>2. /\ lvl' = lvl /\ pos' = pos /\ inst_pool' = inst_pool
      /\ switch_var' = switch_var /\ event_iterator' = event_iterator
      /\ num_events' = num_events /\ num_vars' = num_vars
  BY DEF filling, Keeps, config
<1>3. Otf!Pow(num_events)' = Otf!Pow(num_events)
  BY <1>2 DEF Otf!Pow
<1>4. \A c, v : Digit(c, v)' = Digit(c, v)
  BY <1>2, <1>3 DEF Digit, Otf!switchvar
<1>5. Last' = Last
  BY <1>2, <1>3 DEF Last
<1>6. \A p : Column(p, Level(p))' = Column(p, Level(p))
  BY <1>2, <1>4 DEF Column, Level
<1>7. inst_pool' = [p \in 1 .. Last |-> Column(p, Level(p))]'
  BY <1>1, <1>2, <1>5, <1>6
<1>8. Runs' <=> Runs
  <2>1. Digit(pos - 2, num_vars - lvl)' = Digit(pos - 2, num_vars - lvl)
    BY <1>2, <1>3 DEF Digit, Otf!switchvar
  <2>2. Run' = Run
    BY <1>2, <1>3 DEF Run
  <2> QED BY <1>2, <2>1, <2>2 DEF Runs
<1> QED BY <1>1, <1>2, <1>5, <1>7, <1>8 DEF FillInv

\* A step of the pregenerated pool fills, counts, ends the pass or begins the next one.
LEMMA PregenSteps ==
  ASSUME PoolInv, PregenNext
  PROVE  /\ Counts \/ Ends \/ Resets \/ Waits
         /\ FillInv'
<1>1. kind = "pregen" /\ kind' = kind /\ scope_of' = scope_of
  BY DEF PregenNext
<1>2. /\ Counted /\ Last \in Nat \ {0} /\ traversal_var \in 0 .. Last
      /\ lvl \in 0 .. num_vars
      /\ inst_pool = [p \in 1 .. Last |-> Column(p, Level(p))]
  BY <1>1, PowType DEF PoolInv, Configured, CountInv, FillInv, Last, Counted
<1>3. UNCHANGED config => Keeps
  BY <1>1 DEF Keeps
<1>4. CASE Pregen!FillPosition
  BY <1>1, <1>3, <1>4, FillPositionKeeps DEF Pregen!FillPosition, Pregen!config,
     Pregen!traversal, traversal, config, Waits
<1>5. CASE Pregen!NextLevel
  BY <1>1, <1>3, <1>5, NextLevelKeeps DEF Pregen!NextLevel, Pregen!config,
     Pregen!traversal, traversal, config, Waits
<1>6. CASE Pregen!ReturnNext
  <2> DEFINE T == Digits(traversal_var)
             to_return == inst_pool[traversal_var + 1]
  <2>1. /\ lvl = num_vars /\ ~ drained /\ traversal_var < Last
        /\ returned' = IF ~ allow_repetition /\ Pregen!HasDuplicates(to_return)
                       THEN returned ELSE Append(returned, to_return)
        /\ traversal_var' = traversal_var + 1
        /\ UNCHANGED <<drained, pass>> /\ UNCHANGED filling /\ UNCHANGED config
    BY <1>6, SamePow DEF Pregen!ReturnNext, Pregen!Filled, Pregen!config, config,
                         Pregen!filling, filling
  <2>2. to_return = Mirrored(T)
    <3>1. traversal_var + 1 \in 1 .. Last /\ traversal_var \in Nat
      BY <1>2, <2>1
    <3>2. Level(traversal_var + 1) = num_vars
      BY <1>2, <2>1 DEF Level, Counted
    <3>3. to_return = Column(traversal_var + 1, num_vars)
      BY <1>2, <3>1, <3>2
    <3> QED BY <1>2, <3>1, <3>3, FullColumn
  <2>3. T \in [FormVars -> Events]
    BY <1>2, DigitsType
  <2>4. Pregen!HasDuplicates(to_return) <=> HasDuplicates(T)
    <3>1. Pregen!HasDuplicates(to_return) <=> HasDuplicates(to_return)
      BY DEF Pregen!HasDuplicates, HasDuplicates, Pregen!FormVars, FormVars
    <3> QED BY <1>2, <2>2, <2>3, <3>1, MirroredTwice
  <2>5. Give(T) = to_return
    BY <1>1, <2>2 DEF Give
  <2> HIDE DEF to_return
  <2>6. Counts
    <3> HIDE DEF T
    <3>1. \/ Fits(T) /\ returned' = Append(returned, Give(T))
          \/ ~ Fits(T) /\ returned' = returned
      BY <2>1, <2>4, <2>5 DEF Fits
    <3> QED BY <1>3, <2>1, <3>1 DEF Counts, T
  <2>7. FillInv'
    BY <1>2, <1>3, <2>1, FillingKept
  <2> QED BY <2>6, <2>7
<1>7. CASE Pregen!ReturnNull
  <2>1. /\ Ends /\ UNCHANGED filling /\ lvl = num_vars /\ Keeps
    BY <1>3, <1>7, SamePow DEF Pregen!ReturnNull, Pregen!Filled, Pregen!config, config,
                               Pregen!filling, filling, Ends
  <2> QED BY <1>2, <2>1, FillingKept
<1>8. CASE Pregen!ResetInstantiations
  <2>1. /\ Resets /\ UNCHANGED filling /\ traversal_var' = 0 /\ Keeps
    BY <1>3, <1>8 DEF Pregen!ResetInstantiations, Pregen!ResetCounter, Pregen!config, config,
                      Pregen!filling, filling, Resets
  <2> QED BY <2>1, FillingKept
<1> QED BY <1>4, <1>5, <1>6, <1>7, <1>8 DEF PregenNext, Pregen!Next

\* What a step leaves alone keeps the settings.
LEMMA SettingsKept ==
  ASSUME Configured, ScopesKnown, Keeps, drained' \in BOOLEAN, pass' \in 1 .. MaxPasses
  PROVE  Configured' /\ ScopesKnown'
<1>1. /\ num_events' = num_events /\ num_vars' = num_vars
      /\ allow_repetition' = allow_repetition /\ kind' = kind /\ scope_of' = scope_of
      /\ Events' = Events
  BY SameNumbers DEF Keeps, config
<1> QED BY <1>1 DEF Configured, Counted, ScopesKnown

\* The constant pool.
LEMMA ConstSteps ==
  ASSUME PoolInv, ConstNext
  PROVE  PoolInv'
<1>1. kind = "const" /\ kind' = kind /\ scope_of' = scope_of
  BY DEF ConstNext
<1>2. /\ traversal_var \in {0, 1}
      /\ returned = IF traversal_var = 0 THEN <<>> ELSE <<Const!instantiation>>
      /\ drained \in BOOLEAN /\ pass \in 1 .. MaxPasses
      /\ drained => traversal_var = 1
  BY <1>1 DEF PoolInv, ConstInv, Configured
<1>3. /\ UNCHANGED config
      /\ drained' \in BOOLEAN /\ pass' \in 1 .. MaxPasses /\ traversal_var' \in {0, 1}
      /\ drained' => traversal_var' = 1
      /\ returned' = IF traversal_var' = 0 THEN <<>> ELSE <<Const!instantiation>>
  <2>1. CASE Const!ReturnNext
    BY <1>2, <2>1 DEF Const!ReturnNext, Const!config, config
  <2>2. CASE Const!ReturnNull
    BY <1>2, <2>2 DEF Const!ReturnNull, Const!config, config
  <2>3. CASE Const!ResetCounter
    <3>1. pass < MaxPasses /\ pass' = pass + 1
      BY <2>3 DEF Const!ResetCounter
    <3>2. pass' \in 1 .. MaxPasses
      BY <1>2, <3>1, MaxPassesAssumption
    <3> QED BY <1>2, <2>3, <3>2 DEF Const!ResetCounter, Const!config, config
  <2> QED BY <2>1, <2>2, <2>3 DEF ConstNext, Const!Next
<1>4. Const!instantiation' = Const!instantiation
  BY <1>3 DEF Const!instantiation, Const!FormVars, config
<1>5. ConstInv'
  BY <1>3, <1>4 DEF ConstInv
<1>6. Configured' /\ ScopesKnown'
  BY <1>1, <1>3, SettingsKept DEF PoolInv, Keeps
<1> QED BY <1>1, <1>5, <1>6 DEF PoolInv, CountInv, WheelsInv, FillInv, Odometer

\* A new pool.
LEMMA PoolInvStarts == Init => PoolInv
<1> SUFFICES ASSUME Init PROVE PoolInv
  OBVIOUS
<1>1. /\ num_events \in EventCounts /\ num_vars \in VarCounts
      /\ allow_repetition \in BOOLEAN /\ traversal_var = 0 /\ returned = <<>>
      /\ drained = FALSE /\ pass = 1 /\ kind \in {"otf", "scoped", "pregen", "const"}
  BY DEF Init, Otf!Init, Otf!InitPool, Scoped!InitScoped, Scoped!Init, Scoped!InitPool,
         Pregen!Init, Pregen!InitPool, Const!Init, Const!InitPool
<1>2. Configured
  <2>1. Counted
    BY <1>1, EventCountsAssumption, VarCountsAssumption DEF Counted
  <2>2. 1 \in 1 .. MaxPasses
    BY MaxPassesAssumption
  <2> QED BY <1>1, <2>1, <2>2 DEF Configured
<1>3. ScopesKnown
  BY DEF Init, Scoped!InitScoped, ScopesKnown, Events, Scoped!Events
<1>4. WheelsInv
  BY <1>1 DEF Init, WheelsInv, Wheels, Odometer, Otf!Init, Scoped!InitScoped, Scoped!Init,
              Otf!FormVars, Scoped!FormVars, FormVars
<1>5. Last \in Nat \ {0}
  BY <1>2, PowType DEF Last, Configured, Counted
<1>6. CountInv
  <2>1. HandedOut = {} /\ SoFar(0) = {}
    BY <1>1 DEF HandedOut, SoFar
  <2>2. ReturnedInOrder /\ returned \in Seq(Outcomes)
    BY <1>1 DEF ReturnedInOrder
  <2> QED BY <1>1, <1>5, <2>1, <2>2 DEF CountInv
<1>7. FillInv
  <2> SUFFICES ASSUME kind = "pregen" PROVE FillInv
    BY DEF FillInv
  <2>1. /\ inst_pool = [p \in 1 .. Last |-> <<>>] /\ lvl = 0 /\ pos = 1
        /\ switch_var = 1 /\ event_iterator = 1
    BY SamePow DEF Init, Pregen!Init
  <2>2. \A p \in 1 .. Last : Level(p) = 0 /\ Column(p, 0) = <<>>
    BY <2>1 DEF Level, Column
  <2>3. inst_pool = [p \in 1 .. Last |-> Column(p, Level(p))]
    BY <2>1, <2>2
  <2>4. Run = 1
    BY <1>2, <2>1, PowStep DEF Run, Configured
  <2> QED BY <1>1, <1>2, <1>5, <2>1, <2>3, <2>4 DEF FillInv, Runs, Configured, Counted
<1>8. ConstInv
  BY <1>1 DEF ConstInv
<1> QED BY <1>1, <1>2, <1>3, <1>4, <1>6, <1>7, <1>8 DEF PoolInv

\* What a pool with wheels does in a step.
LEMMA OdometerNext ==
  ASSUME PoolInv, Odometer, Next
  PROVE  /\ Counts \/ Ends \/ Resets
         /\ WheelsInv'
<1>1. /\ Configured /\ ScopesKnown /\ Wheels /\ Counted /\ traversal_var \in Nat
      /\ kind # "const"
  <2>1. Last \in Nat
    BY PowType DEF PoolInv, Configured, Last, Counted
  <2> QED BY <2>1 DEF PoolInv, CountInv, WheelsInv, Configured, Odometer
<1>2. Otf!Turned = Digits(traversal_var)
  BY <1>1, TurnedIsNext
<1>3. \/ Counts /\ mapto' = Otf!Turned
      \/ (Ends \/ Resets) /\ mapto' = mapto
  BY <1>1, <1>2, OdometerSteps
<1>4. CASE Counts /\ mapto' = Otf!Turned
  <2>1. Keeps /\ mapto' = Digits(traversal_var) /\ traversal_var' = traversal_var + 1
    BY <1>2, <1>4 DEF Counts
  <2> QED BY <1>4, <2>1, WheelsKept
<1>5. CASE Ends /\ mapto' = mapto
  <2>1. Keeps /\ traversal_var' = traversal_var
    BY <1>5 DEF Ends
  <2> QED BY <1>5, <2>1, WheelsKept
<1>6. CASE Resets /\ mapto' = mapto
  <2>1. Keeps /\ traversal_var' = 0 /\ drained
    BY <1>6 DEF Resets
  <2> QED BY <1>6, <2>1, WheelsKept
<1> QED BY <1>3, <1>4, <1>5, <1>6

\* Every step of a pool that counts is one of four.
LEMMA CountingNext ==
  ASSUME PoolInv, Next, kind # "const"
  PROVE  Counts \/ Ends \/ Resets \/ Waits
<1>1. CASE Odometer
  BY <1>1, OdometerNext
<1>2. CASE ~ Odometer
  BY <1>2, PregenSteps DEF Next, OtfNext, ScopedNext, ConstNext, Odometer
<1> QED BY <1>1, <1>2

\* No step breaks the invariant.
LEMMA PoolInvKept == PoolInv /\ [Next]_vars => PoolInv'
<1> SUFFICES ASSUME PoolInv, [Next]_vars PROVE PoolInv'
  OBVIOUS
<1>1. CASE Next /\ kind # "const"
  <2>1. Counts \/ Ends \/ Resets \/ Waits
    BY <1>1, CountingNext
  <2>2. Keeps
    BY <2>1 DEF Counts, Ends, Resets, Waits
  <2>3. CountInv'
    BY <1>1, <2>1, CountsKeep, EndsKeep, ResetsKeep
  <2>4. drained' \in BOOLEAN /\ pass' \in 1 .. MaxPasses
    <3>1. drained \in BOOLEAN /\ pass \in 1 .. MaxPasses
      BY DEF PoolInv, Configured
    <3>2. CASE Counts \/ Ends \/ Waits
      BY <3>1, <3>2 DEF Counts, Ends, Waits, traversal
    <3>3. CASE Resets
      <4>1. pass < MaxPasses /\ pass' = pass + 1 /\ drained' = FALSE
        BY <3>3 DEF Resets
      <4>2. pass' \in 1 .. MaxPasses
        BY <3>1, <4>1, MaxPassesAssumption
      <4> QED BY <4>1, <4>2
    <3> QED BY <2>1, <3>2, <3>3
  <2>5. Configured' /\ ScopesKnown'
    BY <2>2, <2>4, SettingsKept DEF PoolInv
  <2>6. WheelsInv' /\ FillInv'
    <3>1. CASE Odometer
      BY <1>1, <2>2, <3>1, OdometerNext DEF FillInv, Odometer, Keeps
    <3>2. CASE ~ Odometer
      <4>1. PregenNext
        BY <1>1, <3>2 DEF Next, OtfNext, ScopedNext, ConstNext, Odometer
      <4> QED BY <2>2, <3>2, <4>1, PregenSteps DEF WheelsInv, Odometer, Keeps
    <3> QED BY <3>1, <3>2
  <2> QED BY <1>1, <2>2, <2>3, <2>5, <2>6 DEF PoolInv, ConstInv, Keeps
<1>2. CASE Next /\ kind = "const"
  BY <1>2, ConstSteps DEF Next, OtfNext, ScopedNext, PregenNext
<1>3. CASE UNCHANGED vars
  <2>1. Keeps /\ UNCHANGED <<traversal, mapto, filling>>
    BY <1>3 DEF vars, Keeps
  <2>2. /\ drained' = drained /\ pass' = pass /\ traversal_var' = traversal_var
        /\ returned' = returned /\ kind' = kind
    BY <2>1 DEF traversal, Keeps
  <2>3. Configured' /\ ScopesKnown'
    BY <2>1, <2>2, SettingsKept DEF PoolInv, Configured
  <2>4. ConstInv'
    <3>1. Const!instantiation' = Const!instantiation
      BY <2>1 DEF Const!instantiation, Const!FormVars, Keeps, config
    <3> QED BY <2>2, <3>1 DEF ConstInv, PoolInv
  <2>5. CountInv'
    <3>1. CASE kind # "const"
      BY <2>1, <3>1, EndsKeep DEF Waits
    <3>2. CASE kind = "const"
      BY <2>2, <3>2 DEF CountInv
    <3> QED BY <3>1, <3>2
  <2>6. WheelsInv'
    <3>1. CASE Odometer
      BY <2>1, <2>2, <3>1, WheelsKept
    <3>2. CASE ~ Odometer
      BY <2>2, <3>2 DEF WheelsInv, Odometer
    <3> QED BY <3>1, <3>2
  <2>7. FillInv'
    <3>1. kind = "pregen" /\ lvl < num_vars => traversal_var' = 0
      BY <2>2 DEF PoolInv, FillInv
    <3> QED BY <2>1, <3>1, FillingKept
  <2> QED BY <2>2, <2>3, <2>4, <2>5, <2>6, <2>7 DEF PoolInv
<1> QED BY <1>1, <1>2, <1>3

\* The invariant of the four pools.
LEMMA PoolInvHolds == Spec => []PoolInv
BY PoolInvStarts, PoolInvKept, PTL DEF Spec

-----------------------------------------------------------------------------
(***************************************************************************)
(* What is promised of the pools.                                          *)
(***************************************************************************)

\* No power is more than the last one.
LEMMA PowBounded ==
  ASSUME Counted, NEW i \in 0 .. num_vars
  PROVE  Otf!Pow(num_events)[i] <= Last
<1>1. CASE i = num_vars
  BY <1>1, PowType DEF Last, Counted
<1>2. CASE i # num_vars
  <2> DEFINE r == Otf!Pow(num_events)[i]
  <2>1. num_vars \in i + 1 .. num_vars
    BY <1>2 DEF Counted
  <2>2. PICK m \in Nat \ {0} : Last = m * (num_events * r)
    BY <2>1, PowDivides DEF Last
  <2>3. r \in Nat \ {0} /\ num_events \in Nat \ {0}
    BY PowType DEF Counted
  <2> HIDE DEF r
  <2>4. m * (num_events * r) = r * (m * num_events)
    BY <2>3
  <2>5. m * num_events \in Nat \ {0}
    BY <2>3, ProductBound
  <2>6. r <= r * (m * num_events)
    BY <2>3, <2>5, ProductBound, Zenon
  <2> QED BY <2>2, <2>4, <2>6 DEF r
<1> QED BY <1>1, <1>2

\* What is left of a run, and its event.
LEMMA RunsTyped ==
  ASSUME PoolInv, kind = "pregen"
  PROVE  switch_var \in 0 .. Last /\ event_iterator \in Events
<1>1. /\ lvl \in 0 .. num_vars /\ pos \in 1 .. Last + 1 /\ Runs
      /\ lvl = num_vars => pos = 1
  BY DEF PoolInv, FillInv
<1>2. Counted /\ Run \in Nat \ {0} /\ Last \in Nat /\ Run <= Last
  BY <1>1, PowType, PowBounded DEF PoolInv, Configured, Run, Last, Counted
<1>3. CASE pos = 1
  BY <1>1, <1>2, <1>3 DEF Runs, Events, Counted
<1>4. CASE pos # 1
  <2>1. pos - 2 \in Nat /\ num_vars - lvl \in FormVars
    BY <1>1, <1>2, <1>4 DEF FormVars, Counted
  <2>2. (pos - 2) % Run \in 0 .. Run - 1
    BY <1>2, <2>1
  <2>3. switch_var = Run - 1 - ((pos - 2) % Run)
    BY <1>1, <1>4 DEF Runs
  <2>4. switch_var \in 0 .. Last
    BY <1>2, <2>2, <2>3
  <2>5. Digits(pos - 2)[num_vars - lvl] \in Events
    BY <1>2, <2>1, DigitsType
  <2>6. event_iterator \in Events
    BY <1>1, <1>4, <2>1, <2>5 DEF Runs, Digits
  <2> QED BY <2>4, <2>6
<1> QED BY <1>3, <1>4

\* The variables of the pools keep their types; in particular the counter of no pool runs past
\* the number of instantiations there are.
THEOREM TypeCorrect == Spec => []TypeOK
<1>1. PoolInv => TypeOK
  <2> SUFFICES ASSUME PoolInv PROVE TypeOK
    OBVIOUS
  <2>1. Configured /\ Counted /\ Last \in Nat \ {0}
    BY PowType DEF PoolInv, Configured, Last, Counted
  <2>2. Odometer => Otf!WheelsTyped
    <3> SUFFICES ASSUME Odometer PROVE Otf!WheelsTyped
      OBVIOUS
    <3>1. Wheels /\ traversal_var \in 0 .. Last
      BY DEF PoolInv, WheelsInv, CountInv, Odometer
    <3>2. mapto \in [FormVars -> Events]
      <4>1. CASE traversal_var = 0
        BY <2>1, <3>1, <4>1 DEF Wheels, Events, Counted
      <4>2. CASE traversal_var # 0
        <5>1. traversal_var - 1 \in Nat
          BY <2>1, <3>1, <4>2
        <5> QED BY <2>1, <3>1, <4>2, <5>1, DigitsType DEF Wheels
      <4> QED BY <4>1, <4>2
    <3> QED BY <2>1, <3>1, <3>2 DEF Otf!WheelsTyped, Configured, Last, FormVars, Events,
                                    Otf!FormVars, Otf!Events
  <2>3. kind = "pregen" => /\ lvl \in 0 .. num_vars
                           /\ pos \in 1 .. Pregen!Size + 1
                           /\ switch_var \in 0 .. Pregen!Size
                           /\ event_iterator \in Events
    BY SamePow, RunsTyped DEF PoolInv, FillInv
  <2>4. kind = "const" => traversal_var \in {0, 1}
    BY DEF PoolInv, ConstInv
  <2> QED BY <2>2, <2>3, <2>4 DEF TypeOK, PoolInv, Odometer
<1> QED BY <1>1, PoolInvHolds, PTL

\* The wheels of the on-the-fly pool and of the scoped one show the last counter value in
\* every pass, although reset_instantiations does not touch them.
THEOREM WheelsFollowTheCounter == Spec => []WheelsShowTheCounter
<1>1. PoolInv => WheelsShowTheCounter
  <2> SUFFICES ASSUME PoolInv, Odometer PROVE Otf!WheelsShowTheCounter
    BY DEF WheelsShowTheCounter, Odometer
  <2>1. Wheels
    BY DEF PoolInv, WheelsInv
  <2> QED BY <2>1 DEF Otf!WheelsShowTheCounter, Wheels, Digits, Digit, Otf!FormVars, FormVars
<1> QED BY <1>1, PoolInvHolds, PTL

\* get_next_instantiation of no pool returns an instantiation a second time in a pass: each
\* comes after the one before it.
THEOREM NoneTwice == Spec => []ReturnedInOrder
<1>1. PoolInv => ReturnedInOrder
  <2> SUFFICES ASSUME PoolInv PROVE ReturnedInOrder
    OBVIOUS
  <2>1. CASE kind # "const"
    BY <2>1 DEF PoolInv, CountInv
  <2>2. CASE kind = "const"
    <3>1. returned = <<>> \/ returned = <<Const!instantiation>>
      BY <2>2 DEF PoolInv, ConstInv
    <3>2. Len(returned) \in {0, 1}
      BY <3>1
    <3> QED BY <3>2 DEF ReturnedInOrder
  <2> QED BY <2>1, <2>2
<1> QED BY <1>1, PoolInvHolds, PTL

\* What a pass is expected to give does not change.
LEMMA SameExpected ==
  ASSUME Keeps
  PROVE  Expected' = Expected
<1>1. /\ num_vars' = num_vars /\ num_events' = num_events
      /\ allow_repetition' = allow_repetition /\ kind' = kind /\ scope_of' = scope_of
  BY DEF Keeps, config
<1> QED BY <1>1 DEF Expected, Admissible, HasDuplicates, FormVars, Events,
                    Scoped!AdmissibleScoped, Scoped!Admissible, Scoped!HasDuplicates,
                    Scoped!FormVars, Scoped!Events, Scoped!WithScopes, Scoped!Keys,
                    Const!instantiation, Const!FormVars

\* Expected is what is given for the instantiations that fit.
LEMMA ExpectedIs ==
  ASSUME PoolInv, kind # "const"
  PROVE  Expected = {Give(inst) : inst \in {i \in [FormVars -> Events] : Fits(i)}}
<1>1. CASE kind = "otf"
  BY <1>1 DEF Expected, Admissible, Give, Fits
<1>2. CASE kind = "scoped"
  <2>1. Scoped!Admissible = {i \in [FormVars -> Events] : Fits(i)}
    BY DEF Scoped!Admissible, Fits, HasDuplicates, Scoped!HasDuplicates, Scoped!FormVars,
           FormVars, Scoped!Events, Events
  <2> QED BY <1>2, <2>1 DEF Expected, Scoped!AdmissibleScoped, Give
<1>3. CASE kind = "pregen"
  <2> DEFINE A == {i \in [FormVars -> Events] : Fits(i)}
  <2>1. Expected = A
    BY <1>3 DEF Expected, Admissible, Fits
  <2>2. \A inst : Give(inst) = Mirrored(inst)
    BY <1>3 DEF Give
  <2>3. ASSUME NEW inst \in A PROVE Mirrored(inst) \in A /\ Mirrored(Mirrored(inst)) = inst
    <3>1. Counted
      BY DEF PoolInv, Configured
    <3>2. \A v \in FormVars : num_vars - v + 1 \in FormVars
      BY <3>1 DEF FormVars, Counted
    <3>3. Mirrored(inst) \in [FormVars -> Events]
      BY <3>2 DEF Mirrored
    <3> QED BY <3>1, <3>3, MirroredTwice DEF Fits
  <2> HIDE DEF A
  <2> QED BY <2>1, <2>2, <2>3 DEF A
<1> QED BY <1>1, <1>2, <1>3 DEF PoolInv

\* The numbers below the last power give everything expected.
LEMMA AllGiven ==
  ASSUME PoolInv, kind # "const"
  PROVE  SoFar(Last) = Expected
<1>1. Counted /\ Last \in Nat
  BY PowType DEF PoolInv, Configured, Last, Counted
<1>2. \A c \in 0 .. Last - 1 : Digits(c) \in [FormVars -> Events]
  BY <1>1, DigitsType
<1>3. \A inst \in [FormVars -> Events] : \E c \in 0 .. Last - 1 : Digits(c) = inst
  BY <1>1, DigitsReachAll DEF Last
<1>4. SoFar(Last) \subseteq Expected
  BY <1>2, ExpectedIs DEF SoFar
<1>5. Expected \subseteq SoFar(Last)
  <2> SUFFICES ASSUME NEW inst \in [FormVars -> Events], Fits(inst)
               PROVE  Give(inst) \in SoFar(Last)
    BY ExpectedIs
  <2>1. PICK c \in 0 .. Last - 1 : Digits(c) = inst
    BY <1>3
  <2> QED BY <2>1 DEF SoFar
<1> QED BY <1>4, <1>5

\* A step of a pool that counts is one InstantsPool allows, or none of its.
LEMMA CountingImplements ==
  ASSUME PoolInv, kind # "const", Counts \/ Ends \/ Resets \/ Waits
  PROVE  [Pool!Next]_(Pool!vars)
<1> DEFINE t == traversal_var
           gift == Give(Digits(t))
<1>1. /\ t \in 0 .. Last /\ Counted /\ Last \in Nat
      /\ HandedOut = SoFar(t) /\ returned \in Seq(Outcomes)
  BY PowType DEF PoolInv, CountInv, Configured, Last, Counted
<1>2. Pool!HandedOut = HandedOut
  BY DEF Pool!HandedOut, HandedOut
<1>3. CASE Counts
  <2>1. Digits(t) \in [FormVars -> Events]
    BY <1>1, DigitsType
  <2>2. Expected' = Expected /\ ~ drained /\ drained' = drained /\ t < Last
    BY <1>3, SameExpected DEF Counts
  <2>3. CASE Fits(Digits(t)) /\ returned' = Append(returned, gift)
    <3>1. gift \in Expected
      BY <2>1, <2>3, ExpectedIs
    <3>2. gift \notin SoFar(t)
      <4> SUFFICES ASSUME NEW c \in 0 .. t - 1 PROVE Give(Digits(c)) # gift
        BY DEF SoFar
      <4>1. c \in Nat /\ t \in Nat /\ c < t /\ t < Last
        BY <1>1, <2>2
      <4> QED BY <4>1, GiftsInOrder
    <3>3. Pool!HandOut(gift)
      BY <1>1, <1>2, <2>2, <2>3, <3>1, <3>2 DEF Pool!HandOut
    <3> QED BY <3>1, <3>3 DEF Pool!Next
  <2>4. CASE returned' = returned
    BY <2>2, <2>4 DEF Pool!vars
  <2> QED BY <1>3, <2>3, <2>4 DEF Counts
<1>4. CASE Ends
  <2>1. t = Last /\ Keeps /\ returned' = returned /\ drained' = TRUE /\ ~ drained
    BY <1>1, <1>4 DEF Ends
  <2>2. HandedOut = Expected
    BY <1>1, <2>1, AllGiven
  <2>3. Pool!ReturnNull
    BY <1>2, <2>1, <2>2, SameExpected DEF Pool!ReturnNull
  <2> QED BY <2>3 DEF Pool!Next
<1>5. CASE Resets
  BY <1>5, SameExpected DEF Resets, Pool!Reset, Pool!Next
<1>6. CASE Waits
  BY <1>6, SameExpected DEF Waits, traversal, Pool!vars
<1> QED BY <1>3, <1>4, <1>5, <1>6

\* And so is one of the constant pool.
LEMMA ConstImplements ==
  ASSUME PoolInv, ConstNext
  PROVE  [Pool!Next]_(Pool!vars)
<1> DEFINE only == Const!instantiation
<1>1. kind = "const" /\ kind' = kind /\ scope_of' = scope_of
  BY DEF ConstNext
<1>2. /\ traversal_var \in {0, 1}
      /\ returned = IF traversal_var = 0 THEN <<>> ELSE <<only>>
  BY <1>1 DEF PoolInv, ConstInv
<1>3. Expected = {only}
  BY <1>1 DEF Expected
<1>4. Pool!HandedOut = IF traversal_var = 0 THEN {} ELSE {only}
  <2>1. CASE traversal_var = 0
    BY <1>2, <2>1 DEF Pool!HandedOut
  <2>2. CASE traversal_var = 1
    <3>1. DOMAIN <<only>> = {1} /\ <<only>>[1] = only
      OBVIOUS
    <3> QED BY <1>2, <2>2, <3>1 DEF Pool!HandedOut
  <2> QED BY <1>2, <2>1, <2>2
<1>5. UNCHANGED config => Expected' = Expected
  BY <1>1, SameExpected DEF Keeps
<1> HIDE DEF only
<1>6. CASE Const!ReturnNext
  <2>1. Pool!HandOut(only)
    BY <1>3, <1>4, <1>5, <1>6 DEF Const!ReturnNext, Pool!HandOut, Const!config, config, only
  <2> QED BY <1>3, <2>1 DEF Pool!Next
<1>7. CASE Const!ReturnNull
  <2>1. Pool!ReturnNull
    BY <1>2, <1>3, <1>4, <1>5, <1>7
       DEF Const!ReturnNull, Pool!ReturnNull, Const!config, config
  <2> QED BY <2>1 DEF Pool!Next
<1>8. CASE Const!ResetCounter
  BY <1>5, <1>8 DEF Const!ResetCounter, Pool!Reset, Pool!Next, Const!config, config
<1> QED BY <1>6, <1>7, <1>8 DEF ConstNext, Const!Next

\* For every number of events, variables and passes: between a reset and NULL each of the four
\* pools hands out every admissible instantiation, none twice and nothing else, and returns
\* NULL only then (ImplementsPool without its fairness).
THEOREM PoolsImplementInstantsPool == Spec => Pool!Init /\ [][Pool!Next]_(Pool!vars)
<1>1. Init => Pool!Init
  BY DEF Init, Pool!Init, Otf!Init, Otf!InitPool, Scoped!InitScoped, Scoped!Init,
         Scoped!InitPool, Pregen!Init, Pregen!InitPool, Const!Init, Const!InitPool
<1>2. PoolInv /\ [Next]_vars => [Pool!Next]_(Pool!vars)
  <2> SUFFICES ASSUME PoolInv, [Next]_vars PROVE [Pool!Next]_(Pool!vars)
    OBVIOUS
  <2>1. CASE Next /\ kind # "const"
    BY <2>1, CountingNext, CountingImplements
  <2>2. CASE Next /\ kind = "const"
    BY <2>2, ConstImplements DEF Next, OtfNext, ScopedNext, PregenNext
  <2>3. CASE UNCHANGED vars
    <3>1. Keeps /\ returned' = returned /\ drained' = drained
      BY <2>3 DEF vars, traversal, config, Keeps
    <3> QED BY <3>1, SameExpected DEF Pool!vars
  <2> QED BY <2>1, <2>2, <2>3
<1> QED BY <1>1, <1>2, PoolInvHolds, PTL DEF Spec
=============================================================================
