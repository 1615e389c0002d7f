------------------------ MODULE PrefixTreeCheckerProofs ------------------------
(***************************************************************************)
(* The prefix tree checker, for every log, every language of formulas and  *)
(* every order in which a pool hands out the bindings: what it remembers   *)
(* and what it answers is what the formulas mean, and its findings are the *)
(* instantiations that hold on every trace.                                *)
(***************************************************************************)
EXTENDS PrefixTreeChecker, NatFacts

-----------------------------------------------------------------------------
(***************************************************************************)
(* Induction over the formulas of the language, and the functions defined  *)
(* by recursion over them.                                                 *)
(***************************************************************************)

\* The operands of each kind of formula.
LEMMA OperandsAre ==
  ASSUME NEW f
  PROVE  /\ f.op \in {"true", "false", "ap"} => Operands(f) = {}
         /\ f.op \in {"Not", "X", "G", "F"} => Operands(f) = {f.kid}
         /\ f.op \in {"U", "W", "R", "M", "Xor", "Equiv", "Implies"}
              => Operands(f) = {f.first, f.second}
         /\ f.op \in {"And", "Or"} => Operands(f) = {f.kids[n] : n \in DOMAIN f.kids}
BY DEF Operands, UnaryOperators, BinaryOperators, Multiples

\* What a formula is made of is in the language.
LEMMA OperandsInLanguage ==
  ASSUME NEW f \in Language
  PROVE  Operands(f) \subseteq Language
<1>1. PICK n \in 1 .. Len(Levels) : f \in Levels[n]
  BY LevelsAssumption DEF LevelsBelow
<1>2. Operands(f) \subseteq LevelsBelow(n)
  BY <1>1, LevelsAssumption
<1> QED BY <1>2, LevelsAssumption DEF LevelsBelow

\* The level after n is made of formulas of the levels up to n.
LEMMA NextLevel ==
  ASSUME NEW n \in Nat, n + 1 <= Len(Levels)
  PROVE  \A f \in LevelsBelow(n + 2) :
           f \in Language /\ Operands(f) \subseteq LevelsBelow(n + 1)
<1> SUFFICES ASSUME NEW f \in LevelsBelow(n + 2)
             PROVE  f \in Language /\ Operands(f) \subseteq LevelsBelow(n + 1)
  OBVIOUS
<1>1. PICK m \in 1 .. n + 1 : f \in Levels[m]
  BY DEF LevelsBelow
<1>2. m \in 1 .. Len(Levels) /\ m - 1 <= n
  BY LevelsAssumption
<1>3. f \in Language
  BY <1>1, <1>2, LevelsAssumption DEF LevelsBelow
<1>4. Operands(f) \subseteq LevelsBelow(m)
  BY <1>1, <1>2, LevelsAssumption
<1>5. LevelsBelow(m) \subseteq LevelsBelow(n + 1)
  BY <1>2 DEF LevelsBelow
<1> QED BY <1>3, <1>4, <1>5

\* A set that holds every formula whose operands it holds is the whole language.
LEMMA LanguageInduction ==
  ASSUME NEW S, \A f \in Language : Operands(f) \subseteq S => f \in S
  PROVE  Language \subseteq S
<1> DEFINE N == {n \in Nat : n <= Len(Levels) => LevelsBelow(n + 1) \subseteq S}
<1>1. 0 \in N
  BY DEF LevelsBelow
<1>2. ASSUME NEW n \in Nat, n \in N PROVE n + 1 \in N
  <2> SUFFICES ASSUME n + 1 <= Len(Levels) PROVE LevelsBelow(n + 2) \subseteq S
    OBVIOUS
  <2>1. LevelsBelow(n + 1) \subseteq S
    BY <1>2, LevelsAssumption
  <2> QED BY <2>1, NextLevel
<1>3. Len(Levels) \in N
  <2> HIDE DEF N
  <2> QED BY <1>1, <1>2, NatSetInduction, LevelsAssumption
<1> QED BY <1>3, LevelsAssumption

\* The meanings of a formula on a trace follow from those of its operands.
LEMMA HoldsOnIs ==
  ASSUME NEW tr, NEW f \in Language
  PROVE  HoldsOn(tr)[f]
           = [i \in 1 .. Terminal(tr) |-> Meaning(f, [p \in Operands(f) |-> HoldsOn(tr)[p]], tr, i)]
<1> DEFINE Node(g, val) == [k \in 1 .. Terminal(tr) |-> Meaning(g, val, tr, k)]
           IsOn(h, S) == h = [g \in S |-> Node(g, [p \in Operands(g) |-> h[p]])]
           N == {n \in Nat : n <= Len(Levels) => \E h : IsOn(h, LevelsBelow(n + 1))}
<1> HIDE DEF Node
<1>1. 0 \in N
  <2>1. IsOn([g \in {} |-> g], LevelsBelow(0 + 1))
    BY DEF LevelsBelow
  <2> QED BY <2>1
<1>2. ASSUME NEW n \in Nat, n \in N PROVE n + 1 \in N
  <2> SUFFICES ASSUME n + 1 <= Len(Levels) PROVE \E h : IsOn(h, LevelsBelow(n + 2))
    OBVIOUS
  <2>1. PICK h : IsOn(h, LevelsBelow(n + 1))
    BY <1>2, LevelsAssumption
  <2> DEFINE next == [g \in LevelsBelow(n + 2) |-> Node(g, [p \in Operands(g) |-> h[p]])]
  <2>2. LevelsBelow(n + 1) \subseteq LevelsBelow(n + 2)
    BY DEF LevelsBelow
  <2>3. \A p \in LevelsBelow(n + 1) : next[p] = h[p]
    BY <2>1, <2>2
  <2> HIDE DEF next
  <2>4. ASSUME NEW g \in LevelsBelow(n + 2)
        PROVE  [p \in Operands(g) |-> next[p]] = [p \in Operands(g) |-> h[p]]
    BY <2>3, NextLevel
  <2>5. IsOn(next, LevelsBelow(n + 2))
    BY <2>4 DEF next
  <2> QED BY <2>5
<1>3. Len(Levels) \in N
  <2> HIDE DEF N
  <2> QED BY <1>1, <1>2, NatSetInduction, LevelsAssumption
<1>4. PICK h : IsOn(h, Language)
  BY <1>3, LevelsAssumption
<1>5. IsOn(HoldsOn(tr), Language)
  BY <1>4 DEF HoldsOn, Node
<1> DEFINE val == [p \in Operands(f) |-> HoldsOn(tr)[p]]
<1>6. HoldsOn(tr)[f] = Node(f, val)
  BY <1>5
<1> HIDE DEF val
<1>7. HoldsOn(tr)[f] = [i \in 1 .. Terminal(tr) |-> Meaning(f, val, tr, i)]
  BY <1>6 DEF Node
<1> QED BY <1>7 DEF val

\* The same at one position.
LEMMA HoldsOnDef ==
  ASSUME NEW tr, NEW f \in Language, NEW i \in 1 .. Terminal(tr)
  PROVE  HoldsOn(tr)[f][i] = Meaning(f, [p \in Operands(f) |-> HoldsOn(tr)[p]], tr, i)
<1> DEFINE val == [p \in Operands(f) |-> HoldsOn(tr)[p]]
<1>1. HoldsOn(tr)[f] = [k \in 1 .. Terminal(tr) |-> Meaning(f, val, tr, k)]
  BY HoldsOnIs
<1> HIDE DEF val
<1>2. HoldsOn(tr)[f][i] = Meaning(f, val, tr, i)
  BY <1>1
<1> QED BY <1>2 DEF val

\* A formula of the language holds or does not.
LEMMA HoldsBoolean ==
  ASSUME NEW tr, Len(tr) \in Nat, NEW f \in Language, NEW i \in 1 .. Terminal(tr)
  PROVE  HoldsOn(tr)[f][i] \in BOOLEAN
<1> DEFINE S == {g \in Language : \A k \in 1 .. Terminal(tr) : HoldsOn(tr)[g][k] \in BOOLEAN}
<1>1. ASSUME NEW g \in Language, Operands(g) \subseteq S PROVE g \in S
  <2> SUFFICES ASSUME NEW k \in 1 .. Terminal(tr) PROVE HoldsOn(tr)[g][k] \in BOOLEAN
    OBVIOUS
  <2> DEFINE val == [p \in Operands(g) |-> HoldsOn(tr)[p]]
  <2>1. HoldsOn(tr)[g][k] = Meaning(g, val, tr, k)
    BY HoldsOnDef
  <2>2. WellFormed(g)
    BY LevelsAssumption
  <2>3. CASE g.op = "X"
    <3> DEFINE next == IF IsTerminal(tr, k) THEN k ELSE k + 1
    <3>1. g.kid \in S
      BY <1>1, <2>3, OperandsAre
    <3>2. next \in 1 .. Terminal(tr)
      BY DEF Terminal, IsTerminal
    <3>3. Meaning(g, val, tr, k) = val[g.kid][next]
      BY <2>3 DEF Meaning
    <3>4. val[g.kid] = HoldsOn(tr)[g.kid]
      BY <2>3, OperandsAre
    <3> HIDE DEF val, next
    <3> QED BY <2>1, <3>1, <3>2, <3>3, <3>4
  <2>4. CASE g.op \in {"true", "false", "ap", "Not", "G", "F", "And", "Or"}
    <3> HIDE DEF val
    <3>1. Meaning(g, val, tr, k) \in BOOLEAN
      BY <2>4 DEF Meaning, ApHolds
    <3> QED BY <2>1, <3>1
  <2>5. CASE g.op \in {"U", "W", "R", "M", "Xor", "Equiv", "Implies"}
    <3> HIDE DEF val
    <3>1. Meaning(g, val, tr, k) \in BOOLEAN
      BY <2>5 DEF Meaning, UntilHolds, ReleaseHolds
    <3> QED BY <2>1, <3>1
  <2> QED BY <2>2, <2>3, <2>4, <2>5
       DEF WellFormed, Operators, Constants, UnaryOperators, BinaryOperators, Multiples
<1>2. Language \subseteq S
  <2> HIDE DEF S
  <2> QED BY <1>1, LanguageInduction
<1> QED BY <1>2

-----------------------------------------------------------------------------
(***************************************************************************)
(* The prefix tree.                                                        *)
(***************************************************************************)

\* The log and the tree that was made of it.
TreeOfLog == /\ log \in Seq(Seq(SUBSET EventNames))
             /\ nodes = TreeOf([id \in DOMAIN log |-> EventsOf(log[id])])

\* A trace passes through a node.
Passing(path, id) ==
  /\ Len(path) \in 1 .. Terminal(log[id])
  /\ path = SubSeq(EventsOf(log[id]), 1, Len(path))

Through(path) == nodes[path].trace_ids

\* The events of a trace: its own, and the terminal one.
LEMMA EventsAre ==
  ASSUME NEW tr \in Seq(SUBSET EventNames)
  PROVE  /\ Len(tr) \in Nat /\ DOMAIN tr = 1 .. Len(tr)
         /\ Terminal(tr) = Len(tr) + 1
         /\ EventsOf(tr) \in Seq([props : SUBSET EventNames, terminal : BOOLEAN])
         /\ Len(EventsOf(tr)) = Terminal(tr)
         /\ DOMAIN EventsOf(tr) = 1 .. Terminal(tr)
         /\ \A k \in 1 .. Len(tr) : EventsOf(tr)[k] = Event(tr[k])
         /\ EventsOf(tr)[Terminal(tr)] = TerminalEvent
<1> DEFINE E == [props : SUBSET EventNames, terminal : BOOLEAN]
           own == [k \in DOMAIN tr |-> Event(tr[k])]
<1>1. Len(tr) \in Nat /\ DOMAIN tr = 1 .. Len(tr) /\ Terminal(tr) = Len(tr) + 1
  BY DEF Terminal
<1>2. \A k \in DOMAIN tr : Event(tr[k]) \in E
  BY DEF Event
<1>3. TerminalEvent \in E
  BY DEF TerminalEvent
<1> HIDE DEF E
<1>4. own \in Seq(E) /\ Len(own) = Len(tr) /\ \A k \in 1 .. Len(tr) : own[k] = Event(tr[k])
  BY <1>1, <1>2
<1> HIDE DEF own
<1>5. /\ Append(own, TerminalEvent) \in Seq(E)
      /\ Len(Append(own, TerminalEvent)) = Len(tr) + 1
      /\ \A k \in 1 .. Len(tr) : Append(own, TerminalEvent)[k] = own[k]
      /\ Append(own, TerminalEvent)[Len(tr) + 1] = TerminalEvent
  BY <1>1, <1>3, <1>4
<1>6. EventsOf(tr) = Append(own, TerminalEvent)
  BY DEF EventsOf, own
<1>7. DOMAIN EventsOf(tr) = 1 .. Terminal(tr)
  BY <1>1, <1>5, <1>6
<1> QED BY <1>1, <1>4, <1>5, <1>6, <1>7 DEF E

\* A beginning of a trace: its length and its events.
LEMMA BeginningIs ==
  ASSUME NEW tr \in Seq(SUBSET EventNames), NEW n \in 1 .. Terminal(tr)
  PROVE  LET path == SubSeq(EventsOf(tr), 1, n)
         IN Len(path) = n /\ \A k \in 1 .. n : path[k] = EventsOf(tr)[k]
<1>1. /\ EventsOf(tr) \in Seq([props : SUBSET EventNames, terminal : BOOLEAN])
      /\ Len(EventsOf(tr)) = Terminal(tr)
  BY EventsAre
<1>2. ASSUME NEW E, NEW s \in Seq(E), n \in 1 .. Len(s)
      PROVE  Len(SubSeq(s, 1, n)) = n /\ \A k \in 1 .. n : SubSeq(s, 1, n)[k] = s[k]
  <2>1. n \in Nat /\ Len(s) \in Nat /\ n <= Len(s)
    BY <1>2
  <2>2. Len(SubSeq(s, 1, n)) = n
    BY <2>1
  <2> QED BY <2>1, <2>2
<1> QED BY <1>1, <1>2

\* The nodes are the beginnings of the traces, and hold the ids of those that begin so.
LEMMA NodesAre ==
  ASSUME TreeOfLog
  PROVE  /\ \A path : path \in DOMAIN nodes <=> \E id \in DOMAIN log : Passing(path, id)
         /\ \A path \in DOMAIN nodes : /\ nodes[path].trace_ids = {id \in DOMAIN log : Passing(path, id)}
                                       /\ nodes[path].key = nodes[path].trace_ids
<1> DEFINE traces         == [id \in DOMAIN log |-> EventsOf(log[id])]
           Beginnings(id) == {SubSeq(traces[id], 1, n) : n \in DOMAIN traces[id]}
           Ids(path)      == {id \in DOMAIN traces : path \in Beginnings(id)}
<1>1. \A id \in DOMAIN log : log[id] \in Seq(SUBSET EventNames)
  BY DEF TreeOfLog
<1>2. ASSUME NEW id \in DOMAIN log, NEW path
      PROVE  path \in Beginnings(id) <=> Passing(path, id)
  <2>1. traces[id] = EventsOf(log[id]) /\ DOMAIN traces[id] = 1 .. Terminal(log[id])
    BY <1>1, EventsAre
  <2>2. ASSUME path \in Beginnings(id) PROVE Passing(path, id)
    <3>1. PICK n \in 1 .. Terminal(log[id]) : path = SubSeq(EventsOf(log[id]), 1, n)
      BY <2>1, <2>2
    <3>2. Len(path) = n
      BY <1>1, <3>1, BeginningIs
    <3> QED BY <3>1, <3>2 DEF Passing
  <2>3. ASSUME Passing(path, id) PROVE path \in Beginnings(id)
    BY <2>1, <2>3 DEF Passing
  <2> QED BY <2>2, <2>3
<1>3. DOMAIN traces = DOMAIN log
  OBVIOUS
<1>4. nodes = [path \in UNION {Beginnings(id) : id \in DOMAIN traces} |->
                 [trace_ids |-> Ids(path), key |-> Ids(path)]]
  BY DEF TreeOfLog, TreeOf
<1> HIDE DEF Beginnings, traces
<1>5. \A path : path \in DOMAIN nodes <=> \E id \in DOMAIN log : path \in Beginnings(id)
  BY <1>3, <1>4
<1>6. \A path \in DOMAIN nodes : nodes[path].trace_ids = Ids(path) /\ nodes[path].key = Ids(path)
  BY <1>4
<1>7. ASSUME NEW path PROVE Ids(path) = {id \in DOMAIN log : Passing(path, id)}
  BY <1>2, <1>3
<1> QED BY <1>2, <1>5, <1>6, <1>7

\* A node, as each of its traces sees it.
LEMMA NodeIs ==
  ASSUME TreeOfLog, NEW path \in DOMAIN nodes, NEW id \in Through(path)
  PROVE  /\ id \in DOMAIN log /\ id \in 1 .. Len(log) /\ id \in Nat
         /\ log[id] \in Seq(SUBSET EventNames)
         /\ Len(path) \in 1 .. Terminal(log[id])
         /\ IsTerminalNode(path) <=> IsTerminal(log[id], Len(path))
         /\ Last(path).props = IF IsTerminal(log[id], Len(path)) THEN {} ELSE log[id][Len(path)]
<1>1. id \in DOMAIN log /\ Passing(path, id)
  BY NodesAre DEF Through
<1>2. id \in 1 .. Len(log) /\ id \in Nat /\ log[id] \in Seq(SUBSET EventNames)
  BY <1>1 DEF TreeOfLog
<1> DEFINE tr == log[id]
           n  == Len(path)
<1>3. n \in 1 .. Terminal(tr) /\ path = SubSeq(EventsOf(tr), 1, n)
  BY <1>1 DEF Passing
<1>4. path[n] = EventsOf(tr)[n]
  BY <1>2, <1>3, BeginningIs
<1>5. Last(path) = IF IsTerminal(tr, n) THEN TerminalEvent ELSE Event(tr[n])
  <2>1. IsTerminal(tr, n) => EventsOf(tr)[n] = TerminalEvent
    BY <1>2, EventsAre DEF IsTerminal
  <2>2. ~ IsTerminal(tr, n) => n \in 1 .. Len(tr)
    BY <1>2, <1>3, EventsAre DEF IsTerminal
  <2>3. ~ IsTerminal(tr, n) => EventsOf(tr)[n] = Event(tr[n])
    BY <1>2, <2>2, EventsAre
  <2> QED BY <1>4, <2>1, <2>3 DEF Last
<1>6. IsTerminalNode(path) <=> IsTerminal(tr, n)
  BY <1>5 DEF IsTerminalNode, TerminalEvent, Event
<1>7. Last(path).props = IF IsTerminal(tr, n) THEN {} ELSE tr[n]
  BY <1>5 DEF TerminalEvent, Event
<1> QED BY <1>1, <1>2, <1>3, <1>6, <1>7

\* At a node that is not terminal each trace goes on to a child, and there is no other
\* child that has it.
LEMMA BranchIs ==
  ASSUME TreeOfLog, NEW path \in DOMAIN nodes, ~ IsTerminalNode(path), NEW id \in Through(path)
  PROVE  /\ Branch(path, id) \in Children(nodes, path)
         /\ id \in Through(Branch(path, id))
<1> DEFINE tr  == log[id]
           n   == Len(path)
           kid == SubSeq(EventsOf(tr), 1, n + 1)
<1>1. id \in DOMAIN log /\ Passing(path, id)
  BY NodesAre DEF Through
<1>2. tr \in Seq(SUBSET EventNames) /\ n \in 1 .. Terminal(tr) /\ ~ IsTerminal(tr, n)
  BY NodeIs
<1>3. n + 1 \in 1 .. Terminal(tr) /\ Terminal(tr) \in Nat
  BY <1>2, EventsAre DEF IsTerminal
<1>4. Len(kid) = n + 1
  BY <1>2, <1>3, BeginningIs
<1>5. SubSeq(kid, 1, n) = path
  <2>1. path = SubSeq(EventsOf(tr), 1, n)
    BY <1>1 DEF Passing
  <2>2. /\ EventsOf(tr) \in Seq([props : SUBSET EventNames, terminal : BOOLEAN])
        /\ Len(EventsOf(tr)) = Terminal(tr)
    BY <1>2, EventsAre
  <2>3. SubSeq(SubSeq(EventsOf(tr), 1, n + 1), 1, n) = SubSeq(EventsOf(tr), 1, n)
    BY <1>2, <1>3, <2>2
  <2> QED BY <2>1, <2>3
<1>6. Passing(kid, id)
  BY <1>3, <1>4 DEF Passing
<1>7. kid \in DOMAIN nodes /\ id \in nodes[kid].key
  BY <1>1, <1>6, NodesAre
<1>8. kid \in ChildOfTrace(nodes, path, id)
  BY <1>4, <1>5, <1>7 DEF ChildOfTrace, Children
<1>9. Branch(path, id) \in ChildOfTrace(nodes, path, id)
  BY <1>8 DEF Branch
<1> QED BY <1>9, NodesAre DEF ChildOfTrace, Children, Through

\* The traces of a child pass through its parent.
LEMMA ChildIs ==
  ASSUME TreeOfLog, NEW path \in DOMAIN nodes, NEW kid \in Children(nodes, path)
  PROVE  /\ kid \in DOMAIN nodes
         /\ Len(kid) = Len(path) + 1
         /\ Through(kid) \subseteq Through(path)
<1>1. kid \in DOMAIN nodes /\ Len(kid) = Len(path) + 1 /\ SubSeq(kid, 1, Len(path)) = path
  BY DEF Children
<1>2. ASSUME NEW id \in Through(kid) PROVE id \in Through(path)
  <2> DEFINE tr == log[id]
             n  == Len(path)
  <2>1. id \in DOMAIN log /\ Passing(kid, id) /\ tr \in Seq(SUBSET EventNames)
    BY <1>1, NodesAre DEF Through, TreeOfLog
  <2>2. PICK other \in DOMAIN log : Passing(path, other)
    BY NodesAre
  <2>3. n \in Nat \ {0}
    <3>1. log[other] \in Seq(SUBSET EventNames)
      BY <2>2 DEF TreeOfLog
    <3> QED BY <2>2, <3>1, EventsAre DEF Passing
  <2>4. n + 1 \in 1 .. Terminal(tr) /\ Terminal(tr) \in Nat /\ kid = SubSeq(EventsOf(tr), 1, n + 1)
    BY <1>1, <2>1, EventsAre DEF Passing
  <2>5. /\ EventsOf(tr) \in Seq([props : SUBSET EventNames, terminal : BOOLEAN])
        /\ Len(EventsOf(tr)) = Terminal(tr)
    BY <2>1, EventsAre
  <2>6. SubSeq(SubSeq(EventsOf(tr), 1, n + 1), 1, n) = SubSeq(EventsOf(tr), 1, n)
    BY <2>3, <2>4, <2>5
  <2>7. Passing(path, id)
    BY <1>1, <2>3, <2>4, <2>6 DEF Passing
  <2> QED BY <2>1, <2>7, NodesAre DEF Through
<1> QED BY <1>1, <1>2

-----------------------------------------------------------------------------
(***************************************************************************)
(* What a formula means at an event follows from what its operands mean    *)
(* there and what it means at the next one.                                *)
(***************************************************************************)

\* The operators without a loop.
LEMMA SimpleMeans ==
  ASSUME NEW f \in Language, NEW tr, NEW i \in 1 .. Terminal(tr)
  PROVE  /\ f.op = "true"    => Holds(f, tr, i)
         /\ f.op = "false"   => ~ Holds(f, tr, i)
         /\ f.op = "ap"      => (Holds(f, tr, i) <=> ApHolds(f.name, tr, i))
         /\ f.op = "Not"     => (Holds(f, tr, i) <=> ~ Holds(f.kid, tr, i))
         /\ f.op = "X"       => Holds(f, tr, i)
                                  = Holds(f.kid, tr, IF IsTerminal(tr, i) THEN i ELSE i + 1)
         /\ f.op = "Xor"     => (Holds(f, tr, i) <=> Holds(f.first, tr, i) # Holds(f.second, tr, i))
         /\ f.op = "Equiv"   => (Holds(f, tr, i) <=> Holds(f.first, tr, i) = Holds(f.second, tr, i))
         /\ f.op = "Implies" => (Holds(f, tr, i) <=> (Holds(f.first, tr, i) => Holds(f.second, tr, i)))
<1> DEFINE val == [p \in Operands(f) |-> HoldsOn(tr)[p]]
<1>1. Holds(f, tr, i) = Meaning(f, val, tr, i)
  BY HoldsOnDef DEF Holds
<1>2. \A p \in Operands(f) : \A k : val[p][k] = Holds(p, tr, k)
  BY DEF Holds
<1> HIDE DEF val
<1>3. CASE f.op \in {"true", "false", "ap"}
  BY <1>1, <1>3 DEF Meaning
<1>4. CASE f.op \in {"Not", "X"}
  <2>1. f.kid \in Operands(f)
    BY <1>4, OperandsAre
  <2>2. CASE f.op = "Not"
    <3>1. Meaning(f, val, tr, i) = ~ val[f.kid][i]
      BY <2>2 DEF Meaning
    <3> QED BY <1>1, <1>2, <2>1, <2>2, <3>1
  <2>3. CASE f.op = "X"
    <3>1. Meaning(f, val, tr, i) = val[f.kid][IF IsTerminal(tr, i) THEN i ELSE i + 1]
      BY <2>3 DEF Meaning
    <3> QED BY <1>1, <1>2, <2>1, <2>3, <3>1
  <2> QED BY <1>4, <2>2, <2>3
<1>5. CASE f.op \in {"Xor", "Equiv", "Implies"}
  <2>1. f.first \in Operands(f) /\ f.second \in Operands(f)
    BY <1>5, OperandsAre
  <2>2. val[f.first][i] = Holds(f.first, tr, i) /\ val[f.second][i] = Holds(f.second, tr, i)
    BY <1>2, <2>1
  <2>3. /\ f.op = "Xor" => Meaning(f, val, tr, i) = (val[f.first][i] # val[f.second][i])
        /\ f.op = "Equiv" => Meaning(f, val, tr, i) = (val[f.first][i] = val[f.second][i])
        /\ f.op = "Implies" => Meaning(f, val, tr, i) = (val[f.first][i] => val[f.second][i])
    BY <1>5 DEF Meaning
  <2> QED BY <1>1, <1>5, <2>2, <2>3
<1> QED BY <1>3, <1>4, <1>5

\* Conjunctions and disjunctions.
LEMMA MultipleMeans ==
  ASSUME NEW f \in Language, NEW tr, NEW i \in 1 .. Terminal(tr)
  PROVE  /\ f.op = "And" => (Holds(f, tr, i) <=> \A n \in DOMAIN f.kids : Holds(f.kids[n], tr, i))
         /\ f.op = "Or"  => (Holds(f, tr, i) <=> \E n \in DOMAIN f.kids : Holds(f.kids[n], tr, i))
<1> DEFINE val == [p \in Operands(f) |-> HoldsOn(tr)[p]]
<1>1. Holds(f, tr, i) = Meaning(f, val, tr, i)
  BY HoldsOnDef DEF Holds
<1>2. \A p \in Operands(f) : val[p][i] = Holds(p, tr, i)
  BY DEF Holds
<1> HIDE DEF val
<1>3. f.op \in {"And", "Or"} => \A n \in DOMAIN f.kids : f.kids[n] \in Operands(f)
  BY OperandsAre
<1>4. /\ f.op = "And" => Meaning(f, val, tr, i) = \A n \in DOMAIN f.kids : val[f.kids[n]][i]
      /\ f.op = "Or" => Meaning(f, val, tr, i) = \E n \in DOMAIN f.kids : val[f.kids[n]][i]
  BY DEF Meaning
<1> QED BY <1>1, <1>2, <1>3, <1>4

\* The loops over the rest of a trace, one event at a time.
LEMMA LoopSteps ==
  ASSUME NEW p, NEW q, NEW last \in Nat, NEW i \in 1 .. last
  PROVE  /\ (\A k \in i .. last : p[k]) <=> p[i] /\ \A k \in i + 1 .. last : p[k]
         /\ (\E k \in i .. last : p[k]) <=> p[i] \/ \E k \in i + 1 .. last : p[k]
         /\ (\E k \in i .. last : p[k] /\ q[k])
              <=> (p[i] /\ q[i]) \/ \E k \in i + 1 .. last : p[k] /\ q[k]
<1>1. \A k : k \in i .. last <=> k = i \/ k \in i + 1 .. last
  OBVIOUS
<1> QED BY <1>1

\* Those of U and R.
LEMMA UntilSteps ==
  ASSUME NEW p, NEW q, NEW last \in Nat, NEW i \in 1 .. last
  PROVE  /\ UntilHolds(p, q, i .. last, i)
              <=> q[i] \/ (p[i] /\ UntilHolds(p, q, i + 1 .. last, i + 1))
         /\ ReleaseHolds(p, q, i .. last, i)
              <=> q[i] /\ (p[i] \/ ReleaseHolds(p, q, i + 1 .. last, i + 1))
<1> DEFINE rest == i .. last
           next == i + 1 .. last
<1>1. \A k : k \in rest <=> k = i \/ k \in next
  OBVIOUS
<1>2. i .. i - 1 = {}
  OBVIOUS
<1>3. \A k \in next : \A j : j \in i .. k - 1 <=> j = i \/ j \in i + 1 .. k - 1
  OBVIOUS
<1> HIDE DEF rest, next
<1>4. UntilHolds(p, q, rest, i) <=> q[i] \/ (p[i] /\ UntilHolds(p, q, next, i + 1))
  BY <1>1, <1>2, <1>3 DEF UntilHolds
<1>5. ReleaseHolds(p, q, rest, i) <=> q[i] /\ (p[i] \/ ReleaseHolds(p, q, next, i + 1))
  BY <1>1, <1>2, <1>3 DEF ReleaseHolds
<1> QED BY <1>4, <1>5 DEF rest, next

\* G and F.
LEMMA UnaryLoopMeans ==
  ASSUME NEW f \in Language, f.op \in {"G", "F"}, NEW tr, Len(tr) \in Nat, NEW i \in 1 .. Terminal(tr)
  PROVE  /\ IsTerminal(tr, i) => (Holds(f, tr, i) <=> f.op = "G")
         /\ ~ IsTerminal(tr, i) =>
              (Holds(f, tr, i) <=> IF f.op = "G" THEN Holds(f.kid, tr, i) /\ Holds(f, tr, i + 1)
                                   ELSE Holds(f.kid, tr, i) \/ Holds(f, tr, i + 1))
<1> DEFINE val == [p \in Operands(f) |-> HoldsOn(tr)[p]]
           kid == HoldsOn(tr)[f.kid]
<1>1. f.kid \in Operands(f) /\ val[f.kid] = kid
  BY OperandsAre
<1>2. \A k \in 1 .. Terminal(tr) : Holds(f, tr, k) = Meaning(f, val, tr, k)
  BY HoldsOnDef DEF Holds
<1> HIDE DEF val
<1>3. \A k \in 1 .. Terminal(tr) :
        Holds(f, tr, k) <=> IF f.op = "G" THEN \A m \in k .. Len(tr) : kid[m]
                            ELSE \E m \in k .. Len(tr) : kid[m]
  BY <1>1, <1>2 DEF Meaning
<1>4. kid[i] = Holds(f.kid, tr, i)
  BY DEF Holds
<1> HIDE DEF kid
<1>5. CASE IsTerminal(tr, i)
  <2>1. i .. Len(tr) = {}
    BY <1>5 DEF IsTerminal, Terminal
  <2> QED BY <1>3, <1>5, <2>1
<1>6. CASE ~ IsTerminal(tr, i)
  <2>1. i \in 1 .. Len(tr) /\ i + 1 \in 1 .. Terminal(tr)
    BY <1>6 DEF IsTerminal, Terminal
  <2>2. /\ (\A k \in i .. Len(tr) : kid[k]) <=> kid[i] /\ \A k \in i + 1 .. Len(tr) : kid[k]
        /\ (\E k \in i .. Len(tr) : kid[k]) <=> kid[i] \/ \E k \in i + 1 .. Len(tr) : kid[k]
    BY <2>1, LoopSteps
  <2> QED BY <1>3, <1>4, <1>6, <2>1, <2>2
<1> QED BY <1>5, <1>6

\* U, W, R and M.
LEMMA BinaryLoopMeans ==
  ASSUME NEW f \in Language, f.op \in {"U", "W", "R", "M"}, NEW tr, Len(tr) \in Nat,
         NEW i \in 1 .. Terminal(tr)
  PROVE  /\ IsTerminal(tr, i) => (Holds(f, tr, i) <=> f.op \in {"W", "R"})
         /\ ~ IsTerminal(tr, i) =>
              (Holds(f, tr, i) <=>
                 IF f.op \in {"U", "W"}
                 THEN Holds(f.second, tr, i) \/ (Holds(f.first, tr, i) /\ Holds(f, tr, i + 1))
                 ELSE Holds(f.second, tr, i) /\ (Holds(f.first, tr, i) \/ Holds(f, tr, i + 1)))
<1> DEFINE val    == [p \in Operands(f) |-> HoldsOn(tr)[p]]
           first  == HoldsOn(tr)[f.first]
           second == HoldsOn(tr)[f.second]
           Rest(k) == k .. Len(tr)
<1>1. val[f.first] = first /\ val[f.second] = second
  BY OperandsAre
<1>2. \A k \in 1 .. Terminal(tr) : Holds(f, tr, k) = Meaning(f, val, tr, k)
  BY HoldsOnDef DEF Holds
<1> HIDE DEF val
<1>3. \A k \in 1 .. Terminal(tr) :
        /\ f.op = "U" => (Holds(f, tr, k) <=> UntilHolds(first, second, Rest(k), k))
        /\ f.op = "W" => (Holds(f, tr, k) <=> UntilHolds(first, second, Rest(k), k)
                                             \/ \A m \in Rest(k) : first[m])
        /\ f.op = "R" => (Holds(f, tr, k) <=> ReleaseHolds(first, second, Rest(k), k))
        /\ f.op = "M" => (Holds(f, tr, k) <=> ReleaseHolds(first, second, Rest(k), k)
                                             /\ \E m \in Rest(k) : first[m] /\ second[m])
  BY <1>1, <1>2 DEF Meaning
<1>4. first[i] = Holds(f.first, tr, i) /\ second[i] = Holds(f.second, tr, i)
  BY DEF Holds
<1> HIDE DEF first, second
<1>5. CASE IsTerminal(tr, i)
  <2>1. Rest(i) = {}
    BY <1>5 DEF IsTerminal, Terminal
  <2> HIDE DEF Rest
  <2>2. /\ ~ UntilHolds(first, second, Rest(i), i)
        /\ ReleaseHolds(first, second, Rest(i), i)
    BY <2>1 DEF UntilHolds, ReleaseHolds
  <2> QED BY <1>3, <1>5, <2>1, <2>2
<1>6. CASE ~ IsTerminal(tr, i)
  <2>1. i \in 1 .. Len(tr) /\ i + 1 \in 1 .. Terminal(tr)
    BY <1>6 DEF IsTerminal, Terminal
  <2>2. /\ (\A k \in Rest(i) : first[k]) <=> first[i] /\ \A k \in Rest(i + 1) : first[k]
        /\ (\E k \in Rest(i) : first[k] /\ second[k])
             <=> (first[i] /\ second[i]) \/ \E k \in Rest(i + 1) : first[k] /\ second[k]
        /\ UntilHolds(first, second, Rest(i), i)
             <=> second[i] \/ (first[i] /\ UntilHolds(first, second, Rest(i + 1), i + 1))
        /\ ReleaseHolds(first, second, Rest(i), i)
             <=> second[i] /\ (first[i] \/ ReleaseHolds(first, second, Rest(i + 1), i + 1))
    <3>1. (\A k \in i .. Len(tr) : first[k]) <=> first[i] /\ \A k \in i + 1 .. Len(tr) : first[k]
      BY <2>1, LoopSteps
    <3>2. (\E k \in i .. Len(tr) : first[k] /\ second[k])
            <=> (first[i] /\ second[i]) \/ \E k \in i + 1 .. Len(tr) : first[k] /\ second[k]
      BY <2>1, LoopSteps
    <3>3. UntilHolds(first, second, i .. Len(tr), i)
            <=> second[i] \/ (first[i] /\ UntilHolds(first, second, i + 1 .. Len(tr), i + 1))
      BY <2>1, UntilSteps
    <3>4. ReleaseHolds(first, second, i .. Len(tr), i)
            <=> second[i] /\ (first[i] \/ ReleaseHolds(first, second, i + 1 .. Len(tr), i + 1))
      BY <2>1, UntilSteps
    <3> QED BY <3>1, <3>2, <3>3, <3>4
  <2> DEFINE next == i + 1
  <2>3. next \in 1 .. Terminal(tr)
    BY <2>1
  <2> HIDE DEF Rest, next
  <2>4. CASE f.op = "U"
    BY <1>3, <1>4, <1>6, <2>2, <2>3, <2>4 DEF next
  <2>5. CASE f.op = "W"
    BY <1>3, <1>4, <1>6, <2>2, <2>3, <2>5 DEF next
  <2>6. CASE f.op = "R"
    BY <1>3, <1>4, <1>6, <2>2, <2>3, <2>6 DEF next
  <2>7. CASE f.op = "M"
    BY <1>3, <1>4, <1>6, <2>2, <2>3, <2>7 DEF next
  <2> QED BY <2>4, <2>5, <2>6, <2>7
<1> QED BY <1>5, <1>6

-----------------------------------------------------------------------------
(***************************************************************************)
(* Which bindings a formula sees.                                          *)
(***************************************************************************)

\* The propositions of a formula are those of its operands.
LEMMA ApsOfIs ==
  ASSUME NEW f \in Language
  PROVE  ApsOf(f) = IF f.op = "ap" THEN {f.name} ELSE UNION {ApsOf(p) : p \in Operands(f)}
<1> DEFINE Node(g, val) == IF g.op = "ap" THEN {g.name} ELSE UNION {val[p] : p \in Operands(g)}
           IsOn(h, S) == h = [g \in S |-> Node(g, h)]
           N == {n \in Nat : n <= Len(Levels) => \E h : IsOn(h, LevelsBelow(n + 1))}
<1>a. ASSUME NEW g, NEW h, NEW k, \A p \in Operands(g) : h[p] = k[p]
      PROVE  Node(g, h) = Node(g, k)
  <2>1. {h[p] : p \in Operands(g)} = {k[p] : p \in Operands(g)}
    BY <1>a
  <2> QED BY <2>1
<1> HIDE DEF Node
<1>1. 0 \in N
  <2>1. IsOn([g \in {} |-> g], LevelsBelow(0 + 1))
    BY DEF LevelsBelow
  <2> QED BY <2>1
<1>2. ASSUME NEW n \in Nat, n \in N PROVE n + 1 \in N
  <2> SUFFICES ASSUME n + 1 <= Len(Levels) PROVE \E h : IsOn(h, LevelsBelow(n + 2))
    OBVIOUS
  <2>1. PICK h : IsOn(h, LevelsBelow(n + 1))
    BY <1>2, LevelsAssumption
  <2> DEFINE next == [g \in LevelsBelow(n + 2) |-> Node(g, h)]
  <2>2. LevelsBelow(n + 1) \subseteq LevelsBelow(n + 2)
    BY DEF LevelsBelow
  <2>3. \A p \in LevelsBelow(n + 1) : next[p] = h[p]
    BY <2>1, <2>2
  <2> HIDE DEF next
  <2>4. ASSUME NEW g \in LevelsBelow(n + 2) PROVE Node(g, next) = Node(g, h)
    <3>1. \A p \in Operands(g) : next[p] = h[p]
      BY <2>3, NextLevel
    <3> QED BY <1>a, <3>1
  <2>5. IsOn(next, LevelsBelow(n + 2))
    BY <2>4 DEF next
  <2> QED BY <2>5
<1>3. Len(Levels) \in N
  <2> HIDE DEF N
  <2> QED BY <1>1, <1>2, NatSetInduction, LevelsAssumption
<1>4. PICK h : IsOn(h, Language)
  BY <1>3, LevelsAssumption
<1>5. IsOn(SubformApSet, Language)
  BY <1>4 DEF SubformApSet, Node
<1>6. SubformApSet[f] = Node(f, SubformApSet)
  BY <1>5
<1> QED BY <1>6 DEF Node, ApsOf

\* An operand has no others.
LEMMA ApsOfOperand ==
  ASSUME NEW f \in Language, NEW p \in Operands(f)
  PROVE  ApsOf(p) \subseteq ApsOf(f)
<1>1. f.op # "ap"
  BY OperandsAre
<1> QED BY <1>1, ApsOfIs

\* Two traces that agree on the propositions of a formula agree on the formula.
LEMMA AgreeingTraces ==
  ASSUME NEW f \in Language, NEW s, NEW t, Len(s) \in Nat, Len(t) = Len(s),
         \A k \in 1 .. Len(s) : \A ap \in ApsOf(f) : ap \in s[k] <=> ap \in t[k]
  PROVE  \A i : Holds(f, s, i) = Holds(f, t, i)
<1> DEFINE S == {g \in Language : ApsOf(g) \subseteq ApsOf(f) => HoldsOn(s)[g] = HoldsOn(t)[g]}
<1>1. ASSUME NEW g \in Language, Operands(g) \subseteq S PROVE g \in S
  <2> SUFFICES ASSUME ApsOf(g) \subseteq ApsOf(f) PROVE HoldsOn(s)[g] = HoldsOn(t)[g]
    OBVIOUS
  <2> DEFINE val(tr) == [p \in Operands(g) |-> HoldsOn(tr)[p]]
  <2>1. val(s) = val(t)
    BY <1>1, ApsOfOperand
  <2>2. Terminal(s) = Terminal(t) /\ \A i : IsTerminal(s, i) <=> IsTerminal(t, i)
    BY DEF Terminal, IsTerminal
  <2>3. /\ HoldsOn(s)[g] = [i \in 1 .. Terminal(s) |-> Meaning(g, val(s), s, i)]
        /\ HoldsOn(t)[g] = [i \in 1 .. Terminal(t) |-> Meaning(g, val(t), t, i)]
    BY HoldsOnIs
  <2> DEFINE v == val(t)
  <2> HIDE DEF v
  <2>4. ASSUME NEW i \in 1 .. Terminal(s) PROVE Meaning(g, v, s, i) = Meaning(g, v, t, i)
    <3>1. CASE g.op = "ap"
      <4>1. g.name \in ApsOf(f)
        BY <3>1, ApsOfIs
      <4>2. ~ IsTerminal(s, i) => i \in 1 .. Len(s)
        BY DEF IsTerminal, Terminal
      <4>3. ApHolds(g.name, s, i) = ApHolds(g.name, t, i)
        BY <2>2, <4>1, <4>2 DEF ApHolds
      <4> QED BY <3>1, <4>3 DEF Meaning
    <3>2. CASE g.op # "ap"
      BY <2>2, <3>2 DEF Meaning
    <3> QED BY <3>1, <3>2
  <2> QED BY <2>1, <2>2, <2>3, <2>4 DEF v
<1>2. Language \subseteq S
  <2> HIDE DEF S
  <2> QED BY <1>1, LanguageInduction
<1> QED BY <1>2 DEF Holds

\* What is bound to an event that a trace does not have at a position does not hold there.
LEMMA UnderIs ==
  ASSUME NEW tr \in Seq(SUBSET EventNames), NEW inst
  PROVE  /\ Len(Under(inst, tr)) = Len(tr) /\ Len(Under(inst, tr)) \in Nat
         /\ Terminal(Under(inst, tr)) = Terminal(tr)
         /\ \A i : IsTerminal(Under(inst, tr), i) <=> IsTerminal(tr, i)
         /\ \A k \in 1 .. Len(tr) : Under(inst, tr)[k] = {p \in DOMAIN inst : inst[p] \in tr[k]}
<1>1. Len(tr) \in Nat /\ DOMAIN tr = 1 .. Len(tr)
  OBVIOUS
<1>2. Len(Under(inst, tr)) = Len(tr)
  BY <1>1 DEF Under
<1> QED BY <1>1, <1>2 DEF Under, Terminal, IsTerminal

\* The other bindings make no difference to it.
LEMMA RelevantBindings ==
  ASSUME NEW f \in Language, NEW inst, NEW tr \in Seq(SUBSET EventNames)
  PROVE  \A i : Holds(f, Under(Restrict(inst, ApsOf(f) \cap DOMAIN inst), tr), i)
                  = Holds(f, Under(inst, tr), i)
<1> DEFINE few == Restrict(inst, ApsOf(f) \cap DOMAIN inst)
           s == Under(few, tr)
           t == Under(inst, tr)
<1>1. DOMAIN few = ApsOf(f) \cap DOMAIN inst /\ \A p \in DOMAIN few : few[p] = inst[p]
  BY DEF Restrict
<1> HIDE DEF few
<1>2. /\ Len(s) = Len(tr) /\ Len(t) = Len(tr) /\ Len(tr) \in Nat
      /\ \A k \in 1 .. Len(tr) : /\ s[k] = {p \in DOMAIN few : few[p] \in tr[k]}
                                 /\ t[k] = {p \in DOMAIN inst : inst[p] \in tr[k]}
  BY UnderIs
<1>3. \A k \in 1 .. Len(s) : \A ap \in ApsOf(f) : ap \in s[k] <=> ap \in t[k]
  BY <1>1, <1>2
<1> HIDE DEF s, t
<1>4. \A i : Holds(f, s, i) = Holds(f, t, i)
  BY <1>2, <1>3, AgreeingTraces
<1> QED BY <1>4 DEF s, t, few

-----------------------------------------------------------------------------
(***************************************************************************)
(* The recursion of check.                                                 *)
(***************************************************************************)

\* No trace is longer than some length.
LEMMA TracesBounded ==
  ASSUME TreeOfLog
  PROVE  \E bound \in Nat : \A path \in DOMAIN nodes : Len(path) \in 1 .. bound
<1> DEFINE Fit(n, bound) == \A id \in 1 .. n : Terminal(log[id]) <= bound
           N == {n \in Nat : n <= Len(log) => \E bound \in Nat : Fit(n, bound)}
<1>1. /\ Len(log) \in Nat /\ DOMAIN log = 1 .. Len(log)
      /\ \A id \in 1 .. Len(log) : log[id] \in Seq(SUBSET EventNames) /\ Terminal(log[id]) \in Nat
  BY EventsAre DEF TreeOfLog, Terminal
<1>2. 0 \in N
  OBVIOUS
<1>3. ASSUME NEW n \in Nat, n \in N PROVE n + 1 \in N
  <2> SUFFICES ASSUME n + 1 <= Len(log) PROVE \E bound \in Nat : Fit(n + 1, bound)
    OBVIOUS
  <2>1. PICK bound \in Nat : Fit(n, bound)
    BY <1>1, <1>3
  <2>2. Terminal(log[n + 1]) \in Nat
    BY <1>1
  <2>3. PICK larger \in Nat : bound <= larger /\ Terminal(log[n + 1]) <= larger
    <3>1. CASE bound <= Terminal(log[n + 1])
      BY <2>2, <3>1
    <3>2. CASE ~ (bound <= Terminal(log[n + 1]))
      BY <2>2, <3>2
    <3> QED BY <3>1, <3>2
  <2>4. ASSUME NEW id \in 1 .. n + 1 PROVE Terminal(log[id]) <= larger
    <3>1. id \in 1 .. n \/ id = n + 1
      OBVIOUS
    <3>2. Terminal(log[id]) \in Nat
      BY <1>1
    <3> QED BY <2>1, <2>3, <3>1, <3>2
  <2> QED BY <2>4
<1>4. Len(log) \in N
  <2> HIDE DEF N
  <2>1. Nat \subseteq N
    BY <1>2, <1>3, NatSetInduction
  <2> QED BY <1>1, <2>1
<1>5. PICK bound \in Nat : Fit(Len(log), bound)
  BY <1>1, <1>4
<1>6. ASSUME NEW path \in DOMAIN nodes PROVE Len(path) \in 1 .. bound
  <2>1. PICK id \in DOMAIN log : Passing(path, id)
    BY NodesAre
  <2>2. Terminal(log[id]) <= bound /\ Terminal(log[id]) \in Nat
    BY <1>1, <1>5
  <2> QED BY <2>1, <2>2 DEF Passing
<1> QED BY <1>6

\* A set that holds every node whose children it holds is the whole tree.
LEMMA TreeInduction ==
  ASSUME TreeOfLog, NEW S,
         \A path \in DOMAIN nodes : Children(nodes, path) \subseteq S => path \in S
  PROVE  DOMAIN nodes \subseteq S
<1>1. PICK bound \in Nat : \A path \in DOMAIN nodes : Len(path) \in 1 .. bound
  BY TracesBounded
<1> DEFINE N == {n \in Nat : \A path \in DOMAIN nodes : Len(path) + n > bound => path \in S}
<1>2. 0 \in N
  BY <1>1
<1>3. ASSUME NEW n \in Nat, n \in N PROVE n + 1 \in N
  <2> SUFFICES ASSUME NEW path \in DOMAIN nodes, Len(path) + (n + 1) > bound PROVE path \in S
    OBVIOUS
  <2>1. ASSUME NEW kid \in Children(nodes, path) PROVE kid \in S
    <3>1. kid \in DOMAIN nodes /\ Len(kid) = Len(path) + 1
      BY DEF Children
    <3>2. Len(path) \in Nat
      BY <1>1
    <3>3. Len(kid) + n > bound
      BY <3>1, <3>2
    <3> QED BY <1>3, <3>1, <3>3
  <2> QED BY <2>1
<1>4. bound \in N
  <2> HIDE DEF N
  <2>1. Nat \subseteq N
    BY <1>2, <1>3, NatSetInduction
  <2> QED BY <2>1
<1>5. ASSUME NEW path \in DOMAIN nodes PROVE path \in S
  <2>1. Len(path) + bound > bound
    BY <1>1
  <2> QED BY <1>4, <2>1
<1> QED BY <1>5

\* The checks at the children of a node.
ChildChecks(check, pt) == [kid \in Children(nodes, pt) |-> check[kid]]

\* What check returns at a node for given operands follows from what it returns at the
\* children.
LEMMA CheckTreeIs ==
  ASSUME TreeOfLog, NEW f, NEW operands, NEW pt \in DOMAIN nodes, NEW call \in Calls
  PROVE  CheckTree(f, operands)[pt][call]
           = CheckAt(f, pt, operands, ChildChecks(CheckTree(f, operands), pt), call)
<1>1. PICK bound \in Nat : \A path \in DOMAIN nodes : Len(path) \in 1 .. bound
  BY TracesBounded
<1> DEFINE Node(path, kids) == [c \in Calls |-> CheckAt(f, path, operands, kids, c)]
           Low(n)     == {path \in DOMAIN nodes : Len(path) + n > bound}
           IsOn(h, S) == h = [path \in S |-> Node(path, [kid \in Children(nodes, path) |-> h[kid]])]
           N == {n \in Nat : \E h : IsOn(h, Low(n))}
<1> HIDE DEF Node
<1>2. 0 \in N
  <2>1. Low(0) = {}
    BY <1>1
  <2>2. IsOn([path \in {} |-> path], {})
    OBVIOUS
  <2> QED BY <2>1, <2>2
<1>3. ASSUME NEW n \in Nat, n \in N PROVE n + 1 \in N
  <2>1. PICK h : IsOn(h, Low(n))
    BY <1>3
  <2> DEFINE next == [path \in Low(n + 1) |-> Node(path, [kid \in Children(nodes, path) |-> h[kid]])]
  <2>2. Low(n) \subseteq Low(n + 1)
    BY <1>1
  <2>3. \A path \in Low(n + 1) : Children(nodes, path) \subseteq Low(n)
    BY <1>1 DEF Children
  <2> HIDE DEF Low
  <2>4. \A path \in Low(n) : next[path] = h[path]
    BY <2>1, <2>2
  <2> HIDE DEF next
  <2>5. ASSUME NEW path \in Low(n + 1)
        PROVE  [kid \in Children(nodes, path) |-> next[kid]] = [kid \in Children(nodes, path) |-> h[kid]]
    BY <2>3, <2>4
  <2>6. IsOn(next, Low(n + 1))
    BY <2>5 DEF next
  <2> QED BY <2>6
<1>4. bound \in N
  <2> HIDE DEF N
  <2>1. Nat \subseteq N
    BY <1>2, <1>3, NatSetInduction
  <2> QED BY <2>1
<1>5. Low(bound) = DOMAIN nodes
  <2>1. ASSUME NEW path \in DOMAIN nodes PROVE Len(path) + bound > bound
    BY <1>1
  <2> QED BY <2>1
<1>6. PICK h : IsOn(h, DOMAIN nodes)
  BY <1>4, <1>5
<1>7. IsOn(CheckTree(f, operands), DOMAIN nodes)
  BY <1>6 DEF CheckTree, Node
<1>8. CheckTree(f, operands)[pt] = Node(pt, ChildChecks(CheckTree(f, operands), pt))
  BY <1>7 DEF ChildChecks
<1> QED BY <1>8 DEF Node

\* The checks of a formula on the tree follow from those of its operands.
OperandChecks(f) == [p \in Operands(f) |-> CheckOn[p]]

\* The two recursions together.
LEMMA CheckOnIs ==
  ASSUME NEW f \in Language
  PROVE  CheckOn[f] = CheckTree(f, OperandChecks(f))
<1> DEFINE IsOn(h, S) == h = [g \in S |-> CheckTree(g, [p \in Operands(g) |-> h[p]])]
           N == {n \in Nat : n <= Len(Levels) => \E h : IsOn(h, LevelsBelow(n + 1))}
<1>1. 0 \in N
  <2>1. IsOn([g \in {} |-> g], LevelsBelow(0 + 1))
    BY DEF LevelsBelow
  <2> QED BY <2>1
<1>2. ASSUME NEW n \in Nat, n \in N PROVE n + 1 \in N
  <2> SUFFICES ASSUME n + 1 <= Len(Levels) PROVE \E h : IsOn(h, LevelsBelow(n + 2))
    OBVIOUS
  <2>1. PICK h : IsOn(h, LevelsBelow(n + 1))
    BY <1>2, LevelsAssumption
  <2> DEFINE next == [g \in LevelsBelow(n + 2) |-> CheckTree(g, [p \in Operands(g) |-> h[p]])]
  <2>2. LevelsBelow(n + 1) \subseteq LevelsBelow(n + 2)
    BY DEF LevelsBelow
  <2>3. \A p \in LevelsBelow(n + 1) : next[p] = h[p]
    BY <2>1, <2>2
  <2> HIDE DEF next
  <2>4. ASSUME NEW g \in LevelsBelow(n + 2)
        PROVE  [p \in Operands(g) |-> next[p]] = [p \in Operands(g) |-> h[p]]
    BY <2>3, NextLevel
  <2>5. IsOn(next, LevelsBelow(n + 2))
    BY <2>4 DEF next
  <2> QED BY <2>5
<1>3. Len(Levels) \in N
  <2> HIDE DEF N
  <2> QED BY <1>1, <1>2, NatSetInduction, LevelsAssumption
<1>4. PICK h : IsOn(h, Language)
  BY <1>3, LevelsAssumption
<1>5. IsOn(CheckOn, Language)
  BY <1>4 DEF CheckOn
<1> QED BY <1>5 DEF OperandChecks

\* One call of check.
LEMMA CheckIs ==
  ASSUME TreeOfLog, NEW f \in Language, NEW pt \in DOMAIN nodes, NEW call \in Calls
  PROVE  CheckOn[f][pt][call] = CheckAt(f, pt, OperandChecks(f), ChildChecks(CheckOn[f], pt), call)
BY CheckOnIs, CheckTreeIs

-----------------------------------------------------------------------------
(***************************************************************************)
(* What a check is to answer, and what the memory and the accumulators are *)
(* on the way there.                                                       *)
(***************************************************************************)
TemporalOperators == {"G", "F", "U", "W", "R", "M"}

\* The tree of the log, and a binding to its events.
Checking == TreeOfLog /\ instantiations \in [DOMAIN instantiations -> EventNames]

HoldsAt(f, pt, id) == Holds(f, Under(instantiations, log[id]), Len(pt))

\* An entry tells the meaning of its formula under its bindings, of a trace that passes
\* through its node; for a temporal operator at a terminal event there is none.
EntryRight(entry) ==
  /\ entry.id \in Through(entry.trace_pt)
  /\ entry.sat <=> Holds(entry.node, Under(entry.relevant_mappings, log[entry.id]),
                         Len(entry.trace_pt))
  /\ ~ (IsTerminalNode(entry.trace_pt) /\ entry.node.op \in TemporalOperators)

MemoryRight(memo) == memo \subseteq Entries /\ \A entry \in memo : EntryRight(entry)

\* An accumulator has decided rightly what it has decided.
AccRight(acc, f, pt, ids) ==
  /\ acc = [ids |-> acc.ids, holds |-> acc.holds, fails |-> acc.fails, memo |-> acc.memo]
  /\ acc.ids \subseteq ids
  /\ acc.holds = {id \in ids \ acc.ids : HoldsAt(f, pt, id)}
  /\ acc.fails = {id \in ids \ acc.ids : ~ HoldsAt(f, pt, id)}
  /\ MemoryRight(acc.memo)

\* It has decided everything.
Settled(acc, f, pt, ids) == AccRight(acc, f, pt, ids) /\ acc.ids = {}

\* A check has the answer for every id.
Answers(r, f, pt, ids) ==
  /\ r.holds = {id \in ids : HoldsAt(f, pt, id)}
  /\ r.fails = {id \in ids : ~ HoldsAt(f, pt, id)}
  /\ MemoryRight(r.memo)

\* It does so whatever ids it is asked about, and whatever is remembered.
AnswersAll(check, f, pt) ==
  \A ids \in SUBSET Through(pt) : \A memo :
    MemoryRight(memo) => Answers(check[Call(ids, memo)], f, pt, ids)

\* A settled accumulator is an answer.
LEMMA SettledAnswers ==
  ASSUME NEW acc, NEW f, NEW pt, NEW ids, Settled(acc, f, pt, ids)
  PROVE  Answers(acc, f, pt, ids)
BY DEF Settled, AccRight, Answers

\* A formula of the language holds on a trace at a node or does not.
LEMMA HoldsAtBoolean ==
  ASSUME TreeOfLog, NEW f \in Language, NEW pt \in DOMAIN nodes, NEW id \in Through(pt)
  PROVE  HoldsAt(f, pt, id) \in BOOLEAN
<1> DEFINE tr == Under(instantiations, log[id])
<1>1. Len(tr) \in Nat /\ Len(pt) \in 1 .. Terminal(tr)
  BY NodeIs, UnderIs
<1> QED BY <1>1, HoldsBoolean DEF HoldsAt, Holds

\* An accumulator that has decided nothing.
LEMMA StartRight ==
  ASSUME NEW f, NEW pt, NEW ids, NEW memo, MemoryRight(memo)
  PROVE  AccRight(Start(Call(ids, memo)), f, pt, ids) /\ Start(Call(ids, memo)).ids = ids
BY DEF Start, Call, AccRight

\* What may be decided of the ids that are left.
Decidable(acc, f, pt, ids, holds, fails, memo) ==
  /\ AccRight(acc, f, pt, ids)
  /\ holds \subseteq acc.ids /\ \A id \in holds : HoldsAt(f, pt, id)
  /\ fails \subseteq acc.ids /\ \A id \in fails : ~ HoldsAt(f, pt, id)
  /\ MemoryRight(memo)

\* Deciding it keeps the accumulator right, and leaves the other ids.
LEMMA DecidedRight ==
  ASSUME NEW f, NEW pt, NEW ids, NEW acc, NEW holds, NEW fails, NEW memo,
         Decidable(acc, f, pt, ids, holds, fails, memo)
  PROVE  /\ AccRight(Decided(acc, holds, fails, memo), f, pt, ids)
         /\ Decided(acc, holds, fails, memo).ids = acc.ids \ (holds \cup fails)
         /\ Decided(acc, holds, fails, memo).memo = memo
<1> DEFINE r == Decided(acc, holds, fails, memo)
<1>1. /\ r = [ids |-> r.ids, holds |-> r.holds, fails |-> r.fails, memo |-> r.memo]
      /\ r.ids = acc.ids \ (holds \cup fails)
      /\ r.holds = acc.holds \cup holds
      /\ r.fails = acc.fails \cup fails
      /\ r.memo = memo
  BY DEF Decided
<1> HIDE DEF r
<1>2. /\ acc.ids \subseteq ids
      /\ acc.holds = {id \in ids \ acc.ids : HoldsAt(f, pt, id)}
      /\ acc.fails = {id \in ids \ acc.ids : ~ HoldsAt(f, pt, id)}
      /\ holds \subseteq acc.ids /\ \A id \in holds : HoldsAt(f, pt, id)
      /\ fails \subseteq acc.ids /\ \A id \in fails : ~ HoldsAt(f, pt, id)
      /\ MemoryRight(memo)
  BY DEF AccRight, Decidable
<1>3. \A id : id \in ids \ r.ids <=> id \in ids \ acc.ids \/ id \in holds \/ id \in fails
  BY <1>1, <1>2
<1>4. r.holds = {id \in ids \ r.ids : HoldsAt(f, pt, id)}
  BY <1>1, <1>2, <1>3
<1>5. r.fails = {id \in ids \ r.ids : ~ HoldsAt(f, pt, id)}
  BY <1>1, <1>2, <1>3
<1>6. AccRight(r, f, pt, ids)
  BY <1>1, <1>2, <1>4, <1>5 DEF AccRight
<1> QED BY <1>1, <1>6 DEF r

\* To decide all that are left, which the formula holds on alike.
LEMMA SettleRight ==
  ASSUME NEW f, NEW pt, NEW ids, NEW acc, AccRight(acc, f, pt, ids), NEW value \in BOOLEAN,
         \A id \in acc.ids : HoldsAt(f, pt, id) <=> value
  PROVE  Settled(Settle(acc, value), f, pt, ids)
<1>1. MemoryRight(acc.memo)
  BY DEF AccRight
<1>2. CASE value
  <2>1. Settle(acc, value) = Decided(acc, acc.ids, {}, acc.memo)
    BY <1>2 DEF Settle
  <2>2. Decidable(acc, f, pt, ids, acc.ids, {}, acc.memo)
    BY <1>1, <1>2 DEF Decidable
  <2> QED BY <2>1, <2>2, DecidedRight DEF Settled
<1>3. CASE ~ value
  <2>1. Settle(acc, value) = Decided(acc, {}, acc.ids, acc.memo)
    BY <1>3 DEF Settle
  <2>2. Decidable(acc, f, pt, ids, {}, acc.ids, acc.memo)
    BY <1>1, <1>3 DEF Decidable
  <2> QED BY <2>1, <2>2, DecidedRight DEF Settled
<1> QED BY <1>2, <1>3

\* To decide by an operand: its having some value decides, and it has the other one where
\* nothing is decided yet.
MayDecide(acc, f, pt, ids, operand, p, value) ==
  /\ ids \subseteq Through(pt) /\ AccRight(acc, f, pt, ids)
  /\ AnswersAll(operand, p, pt) /\ value \in BOOLEAN
  /\ \A id \in acc.ids : (HoldsAt(p, pt, id) <=> value) => (HoldsAt(f, pt, id) <=> value)

\* The ids that are left are those on which the operand has the other value.
LEMMA DecideRight ==
  ASSUME NEW f, NEW p, NEW pt, NEW ids, NEW acc, NEW operand, NEW value,
         MayDecide(acc, f, pt, ids, operand, p, value)
  PROVE  /\ AccRight(Decide(acc, operand, value), f, pt, ids)
         /\ Decide(acc, operand, value).ids \subseteq acc.ids
         /\ \A id \in Decide(acc, operand, value).ids : HoldsAt(p, pt, id) <=> ~ value
<1> DEFINE r == operand[Call(acc.ids, acc.memo)]
           d == Decide(acc, operand, value)
<1>1. acc.ids \subseteq ids /\ MemoryRight(acc.memo) /\ ids \subseteq Through(pt) /\ value \in BOOLEAN
      /\ AccRight(acc, f, pt, ids) /\ AnswersAll(operand, p, pt)
      /\ \A id \in acc.ids : (HoldsAt(p, pt, id) <=> value) => (HoldsAt(f, pt, id) <=> value)
  BY DEF AccRight, MayDecide
<1>2. Answers(r, p, pt, acc.ids)
  BY <1>1 DEF AnswersAll
<1>3. d = IF acc.ids = {} THEN acc ELSE AddSatisfying(acc, r.holds, r.fails, r.memo, value)
  BY DEF Decide
<1> HIDE DEF r, d
<1>4. CASE acc.ids = {}
  BY <1>1, <1>3, <1>4 DEF d
<1>5. CASE acc.ids # {} /\ value
  <2>1. d = Decided(acc, r.holds, {}, r.memo)
    BY <1>3, <1>5 DEF AddSatisfying
  <2>2. r.holds = {id \in acc.ids : HoldsAt(p, pt, id)} /\ MemoryRight(r.memo)
    BY <1>2 DEF Answers
  <2>3. Decidable(acc, f, pt, ids, r.holds, {}, r.memo)
    BY <1>1, <1>5, <2>2 DEF Decidable
  <2>4. AccRight(d, f, pt, ids) /\ d.ids = acc.ids \ (r.holds \cup {})
    BY <2>1, <2>3, DecidedRight
  <2> QED BY <1>5, <2>2, <2>4 DEF d
<1>6. CASE acc.ids # {} /\ ~ value
  <2>1. d = Decided(acc, {}, r.fails, r.memo)
    BY <1>3, <1>6 DEF AddSatisfying
  <2>2. r.fails = {id \in acc.ids : ~ HoldsAt(p, pt, id)} /\ MemoryRight(r.memo)
    BY <1>2 DEF Answers
  <2>3. Decidable(acc, f, pt, ids, {}, r.fails, r.memo)
    BY <1>1, <1>6, <2>2 DEF Decidable
  <2>4. AccRight(d, f, pt, ids) /\ d.ids = acc.ids \ ({} \cup r.fails)
    BY <2>1, <2>3, DecidedRight
  <2> QED BY <1>6, <2>2, <2>4 DEF d
<1> QED BY <1>1, <1>4, <1>5, <1>6

-----------------------------------------------------------------------------
(***************************************************************************)
(* The memory.                                                             *)
(***************************************************************************)

\* The entry for a formula, under the bindings of this instantiation.
LEMMA EntryIs ==
  ASSUME Checking, NEW f \in Language, NEW pt \in DOMAIN nodes, NEW id \in Through(pt),
         NEW sat \in BOOLEAN
  PROVE  LET entry == Entry(f, pt, id, sat)
         IN /\ entry \in Entries
            /\ EntryRight(entry) <=> /\ sat <=> HoldsAt(f, pt, id)
                                     /\ ~ (IsTerminalNode(pt) /\ f.op \in TemporalOperators)
<1> DEFINE few   == RelevantMappings(f)
           entry == Entry(f, pt, id, sat)
           ps    == ApsOf(f) \cap DOMAIN instantiations
<1>1. few \in Mappings
  <2>1. few \in [ps -> EventNames]
    BY DEF RelevantMappings, Restrict, Checking
  <2>2. ps \in SUBSET Propositions
    BY DEF Propositions
  <2> QED BY <2>1, <2>2 DEF Mappings
<1>2. id \in Nat /\ log[id] \in Seq(SUBSET EventNames)
  BY NodeIs DEF Checking
<1>3. /\ entry.node = f /\ entry.trace_pt = pt /\ entry.relevant_mappings = few
      /\ entry.id = id /\ entry.sat = sat
  BY DEF Entry
<1>4. entry \in Entries
  <2> HIDE DEF few
  <2> QED BY <1>1, <1>2 DEF Entries, Entry, few
<1>5. Holds(f, Under(few, log[id]), Len(pt)) = HoldsAt(f, pt, id)
  BY <1>2, RelevantBindings DEF RelevantMappings, HoldsAt
<1> HIDE DEF entry, few
<1>6. EntryRight(entry) <=> /\ sat <=> HoldsAt(f, pt, id)
                            /\ ~ (IsTerminalNode(pt) /\ f.op \in TemporalOperators)
  BY <1>3, <1>5 DEF EntryRight
<1> QED BY <1>4, <1>6 DEF entry

\* What is remembered is right; of a temporal operator at a terminal event, nothing is.
LEMMA RetrieveRight ==
  ASSUME Checking, NEW f \in Language, NEW pt \in DOMAIN nodes, NEW ids \in SUBSET Through(pt),
         NEW memo, MemoryRight(memo)
  PROVE  LET acc == Retrieve(f, pt, Call(ids, memo))
         IN /\ AccRight(acc, f, pt, ids)
            /\ IsTerminalNode(pt) /\ f.op \in TemporalOperators => acc.ids = ids
<1> DEFINE acc        == Retrieve(f, pt, Call(ids, memo))
           Known(sat) == {id \in ids : Entry(f, pt, id, sat) \in memo}
<1>1. /\ acc = [ids |-> acc.ids, holds |-> acc.holds, fails |-> acc.fails, memo |-> acc.memo]
      /\ acc.ids = ids \ (Known(TRUE) \cup Known(FALSE))
      /\ acc.holds = Known(TRUE) /\ acc.fails = Known(FALSE) /\ acc.memo = memo
  BY DEF Retrieve, Call
<1> HIDE DEF acc
<1>2. ASSUME NEW sat \in BOOLEAN, NEW id \in Known(sat)
      PROVE  /\ sat <=> HoldsAt(f, pt, id)
             /\ ~ (IsTerminalNode(pt) /\ f.op \in TemporalOperators)
  <2>1. Entry(f, pt, id, sat) \in memo /\ id \in Through(pt)
    OBVIOUS
  <2>2. EntryRight(Entry(f, pt, id, sat))
    BY <2>1 DEF MemoryRight
  <2> QED BY <2>1, <2>2, EntryIs
<1>3. /\ Known(TRUE) \subseteq ids /\ \A id \in Known(TRUE) : HoldsAt(f, pt, id)
      /\ Known(FALSE) \subseteq ids /\ \A id \in Known(FALSE) : ~ HoldsAt(f, pt, id)
  BY <1>2
<1>4. IsTerminalNode(pt) /\ f.op \in TemporalOperators => Known(TRUE) = {} /\ Known(FALSE) = {}
  BY <1>2
<1> HIDE DEF Known
<1>5. AccRight(acc, f, pt, ids)
  BY <1>1, <1>3 DEF AccRight
<1>6. IsTerminalNode(pt) /\ f.op \in TemporalOperators => acc.ids = ids
  BY <1>1, <1>4
<1> QED BY <1>5, <1>6 DEF acc

\* To remember what a settled accumulator has found.
LEMMA AddToMemoRight ==
  ASSUME Checking, NEW f \in Language, NEW pt \in DOMAIN nodes, NEW ids \in SUBSET Through(pt),
         ~ (IsTerminalNode(pt) /\ f.op \in TemporalOperators),
         NEW acc, Settled(acc, f, pt, ids)
  PROVE  Settled(AddToMemo(f, pt, acc), f, pt, ids)
<1> DEFINE New(some, sat) ==
             {Entry(f, pt, id, sat) : id \in {id \in some : Entry(f, pt, id, ~ sat) \notin acc.memo}}
           memo == acc.memo \cup New(acc.holds, TRUE) \cup New(acc.fails, FALSE)
           r    == AddToMemo(f, pt, acc)
<1>1. /\ acc = [ids |-> acc.ids, holds |-> acc.holds, fails |-> acc.fails, memo |-> acc.memo]
      /\ acc.ids = {} /\ MemoryRight(acc.memo)
      /\ acc.holds = {id \in ids : HoldsAt(f, pt, id)}
      /\ acc.fails = {id \in ids : ~ HoldsAt(f, pt, id)}
  BY DEF Settled, AccRight
<1>2. /\ r = [ids |-> r.ids, holds |-> r.holds, fails |-> r.fails, memo |-> r.memo]
      /\ r.ids = acc.ids /\ r.holds = acc.holds /\ r.fails = acc.fails /\ r.memo = memo
  <2>1. r = [acc EXCEPT !.memo = memo]
    BY DEF AddToMemo
  <2> HIDE DEF r, memo
  <2> QED BY <1>1, <2>1
<1>3. ASSUME NEW sat \in BOOLEAN, NEW id \in ids, HoldsAt(f, pt, id) <=> sat
      PROVE  Entry(f, pt, id, sat) \in Entries /\ EntryRight(Entry(f, pt, id, sat))
  <2>1. id \in Through(pt)
    OBVIOUS
  <2> QED BY <1>3, <2>1, EntryIs
<1>4. \A entry \in New(acc.holds, TRUE) : entry \in Entries /\ EntryRight(entry)
  BY <1>1, <1>3
<1>5. \A entry \in New(acc.fails, FALSE) : entry \in Entries /\ EntryRight(entry)
  BY <1>1, <1>3
<1> HIDE DEF New, r
<1>6. MemoryRight(memo)
  BY <1>1, <1>4, <1>5 DEF MemoryRight
<1> HIDE DEF memo
<1>7. Settled(r, f, pt, ids)
  BY <1>1, <1>2, <1>6 DEF Settled, AccRight
<1> QED BY <1>7 DEF r

-----------------------------------------------------------------------------
(***************************************************************************)
(* The checks of the operators.                                            *)
(***************************************************************************)
HoldsNext(f, pt, id) == Holds(f, Under(instantiations, log[id]), Len(pt) + 1)

\* What a trace of a node is there.
LEMMA TraceAt ==
  ASSUME Checking, NEW pt \in DOMAIN nodes, NEW id \in Through(pt)
  PROVE  LET tr == Under(instantiations, log[id])
             i  == Len(pt)
         IN /\ Len(tr) \in Nat /\ i \in 1 .. Terminal(tr)
            /\ IsTerminalNode(pt) <=> IsTerminal(tr, i)
            /\ \A f : ApHoldsAt(f, pt) <=> ApHolds(f.name, tr, i)
<1> DEFINE tr == Under(instantiations, log[id])
           i  == Len(pt)
<1>1. /\ log[id] \in Seq(SUBSET EventNames)
      /\ i \in 1 .. Terminal(log[id])
      /\ IsTerminalNode(pt) <=> IsTerminal(log[id], i)
      /\ Last(pt).props = IF IsTerminal(log[id], i) THEN {} ELSE log[id][i]
  BY NodeIs DEF Checking
<1>2. /\ Len(tr) \in Nat /\ Terminal(tr) = Terminal(log[id])
      /\ IsTerminal(tr, i) <=> IsTerminal(log[id], i)
      /\ \A k \in 1 .. Len(log[id]) :
           tr[k] = {p \in DOMAIN instantiations : instantiations[p] \in log[id][k]}
  BY <1>1, UnderIs
<1>3. ~ IsTerminal(tr, i) => i \in 1 .. Len(log[id])
  BY <1>1, <1>2 DEF IsTerminal, Terminal
<1> HIDE DEF tr, i
<1>4. ASSUME NEW f PROVE ApHoldsAt(f, pt) <=> ApHolds(f.name, tr, i)
  <2>1. CASE IsTerminal(tr, i)
    BY <1>1, <1>2, <2>1 DEF ApHoldsAt, ApHolds
  <2>2. CASE ~ IsTerminal(tr, i)
    BY <1>1, <1>2, <1>3, <2>2 DEF ApHoldsAt, ApHolds
  <2> QED BY <2>1, <2>2
<1> QED BY <1>1, <1>2, <1>4 DEF tr, i

\* What a formula means on a trace at a node.
LEMMA MeansAt ==
  ASSUME Checking, NEW f \in Language, NEW pt \in DOMAIN nodes, NEW id \in Through(pt)
  PROVE  /\ f.op = "true"    => HoldsAt(f, pt, id)
         /\ f.op = "false"   => ~ HoldsAt(f, pt, id)
         /\ f.op = "ap"      => (HoldsAt(f, pt, id) <=> ApHoldsAt(f, pt))
         /\ f.op = "Not"     => (HoldsAt(f, pt, id) <=> ~ HoldsAt(f.kid, pt, id))
         /\ f.op = "X" /\ IsTerminalNode(pt) => HoldsAt(f, pt, id) = HoldsAt(f.kid, pt, id)
         /\ f.op = "X" /\ ~ IsTerminalNode(pt) => HoldsAt(f, pt, id) = HoldsNext(f.kid, pt, id)
         /\ f.op = "Xor"     => (HoldsAt(f, pt, id) <=> HoldsAt(f.first, pt, id) # HoldsAt(f.second, pt, id))
         /\ f.op = "Equiv"   => (HoldsAt(f, pt, id) <=> HoldsAt(f.first, pt, id) = HoldsAt(f.second, pt, id))
         /\ f.op = "Implies" => (HoldsAt(f, pt, id) <=> (HoldsAt(f.first, pt, id) => HoldsAt(f.second, pt, id)))
         /\ f.op = "And"     => (HoldsAt(f, pt, id) <=> \A n \in DOMAIN f.kids : HoldsAt(f.kids[n], pt, id))
         /\ f.op = "Or"      => (HoldsAt(f, pt, id) <=> \E n \in DOMAIN f.kids : HoldsAt(f.kids[n], pt, id))
<1> DEFINE tr == Under(instantiations, log[id])
           i  == Len(pt)
<1>1. /\ Len(tr) \in Nat /\ i \in 1 .. Terminal(tr)
      /\ IsTerminalNode(pt) <=> IsTerminal(tr, i)
      /\ ApHoldsAt(f, pt) <=> ApHolds(f.name, tr, i)
  BY TraceAt
<1>2. \A p : HoldsAt(p, pt, id) = Holds(p, tr, i) /\ HoldsNext(p, pt, id) = Holds(p, tr, i + 1)
  BY DEF HoldsAt, HoldsNext
<1> HIDE DEF tr, i
<1>3. CASE f.op \in {"true", "false", "ap", "Not", "X"}
  BY <1>1, <1>2, <1>3, SimpleMeans
<1>4. CASE f.op \in {"Xor", "Equiv", "Implies"}
  BY <1>1, <1>2, <1>4, SimpleMeans
<1>5. CASE f.op \in {"And", "Or"}
  BY <1>1, <1>2, <1>5, MultipleMeans
<1> QED BY <1>3, <1>4, <1>5

\* The temporal operators there.
LEMMA LoopMeansAt ==
  ASSUME Checking, NEW f \in Language, NEW pt \in DOMAIN nodes, NEW id \in Through(pt)
  PROVE  /\ IsTerminalNode(pt) /\ f.op \in TemporalOperators =>
              (HoldsAt(f, pt, id) <=> f.op \notin {"U", "M", "F"})
         /\ ~ IsTerminalNode(pt) /\ f.op = "G" =>
              (HoldsAt(f, pt, id) <=> HoldsAt(f.kid, pt, id) /\ HoldsNext(f, pt, id))
         /\ ~ IsTerminalNode(pt) /\ f.op = "F" =>
              (HoldsAt(f, pt, id) <=> HoldsAt(f.kid, pt, id) \/ HoldsNext(f, pt, id))
         /\ ~ IsTerminalNode(pt) /\ f.op \in {"U", "W"} =>
              (HoldsAt(f, pt, id) <=> \/ HoldsAt(f.second, pt, id)
                                      \/ HoldsAt(f.first, pt, id) /\ HoldsNext(f, pt, id))
         /\ ~ IsTerminalNode(pt) /\ f.op \in {"R", "M"} =>
              (HoldsAt(f, pt, id) <=> /\ HoldsAt(f.second, pt, id)
                                      /\ HoldsAt(f.first, pt, id) \/ HoldsNext(f, pt, id))
<1> DEFINE tr == Under(instantiations, log[id])
           i  == Len(pt)
<1>1. /\ Len(tr) \in Nat /\ i \in 1 .. Terminal(tr)
      /\ IsTerminalNode(pt) <=> IsTerminal(tr, i)
  BY TraceAt
<1>2. \A p : HoldsAt(p, pt, id) = Holds(p, tr, i) /\ HoldsNext(p, pt, id) = Holds(p, tr, i + 1)
  BY DEF HoldsAt, HoldsNext
<1> HIDE DEF tr, i
<1>3. CASE f.op \in {"G", "F"}
  BY <1>1, <1>2, <1>3, UnaryLoopMeans DEF TemporalOperators
<1>4. CASE f.op \in {"U", "W", "R", "M"}
  BY <1>1, <1>2, <1>4, BinaryLoopMeans DEF TemporalOperators
<1> QED BY <1>3, <1>4 DEF TemporalOperators

\* The ids that are left go down the branches they take.
LEMMA OnKidsRight ==
  ASSUME Checking, NEW f \in Language, NEW pt \in DOMAIN nodes, ~ IsTerminalNode(pt),
         NEW ids \in SUBSET Through(pt), NEW acc, AccRight(acc, f, pt, ids),
         NEW g, NEW check, \A kid \in Children(nodes, pt) : AnswersAll(check[kid], g, kid),
         \A id \in acc.ids : HoldsAt(f, pt, id) <=> HoldsNext(g, pt, id)
  PROVE  Settled(OnKids(acc, check, pt), f, pt, ids)
<1> DEFINE Descend(a, id) ==
             LET branch == Branch(pt, id)
                 r      == check[branch][Call(a.ids \cap nodes[branch].key, a.memo)]
             IN IF id \in a.ids THEN Decided(a, r.holds, r.fails, r.memo) ELSE a
           Body(h, n) == IF n = 0 THEN acc ELSE Descend(h[n - 1], n)
           IsOn(h, m) == h = [n \in 0 .. m |-> Body(h, n)]
           N == {m \in Nat : \E h : IsOn(h, m)}
<1>1. 0 \in N
  <2>1. IsOn([n \in 0 .. 0 |-> acc], 0)
    OBVIOUS
  <2> QED BY <2>1
<1>2. ASSUME NEW m \in Nat, m \in N PROVE m + 1 \in N
  <2>1. PICK p : IsOn(p, m)
    BY <1>2
  <2> DEFINE q == [n \in 0 .. m + 1 |-> Body(p, n)]
  <2> HIDE DEF Descend
  <2>2. \A n \in 0 .. m : p[n] = Body(p, n)
    BY <2>1
  <2>3. \A n \in 0 .. m : q[n] = p[n]
    BY <2>2
  <2> HIDE DEF q
  <2>4. \A n \in 0 .. m + 1 : Body(q, n) = Body(p, n)
    <3> SUFFICES ASSUME NEW n \in 0 .. m + 1 PROVE Body(q, n) = Body(p, n)
      OBVIOUS
    <3>1. n = 0 \/ n - 1 \in 0 .. m
      OBVIOUS
    <3> QED BY <3>1, <2>3
  <2>5. IsOn(q, m + 1)
    <3> HIDE DEF Body
    <3> QED BY <2>4 DEF q
  <2> HIDE DEF IsOn
  <2> QED BY <2>5
<1>3. Len(log) \in Nat
  BY DEF Checking, TreeOfLog
<1>4. Len(log) \in N
  <2> HIDE DEF N
  <2>1. Nat \subseteq N
    BY <1>1, <1>2, NatSetInduction
  <2> QED BY <1>3, <2>1
<1>5. PICK fold : IsOn(fold, Len(log)) /\ OnKids(acc, check, pt) = fold[Len(log)]
  BY <1>4 DEF OnKids
<1>6. fold[0] = acc
  BY <1>3, <1>5
<1>7. \A n \in 0 .. Len(log) - 1 : fold[n + 1] = Descend(fold[n], n + 1)
  <2> HIDE DEF Descend
  <2> QED BY <1>3, <1>5
<1> DEFINE Right(a, n) == /\ AccRight(a, f, pt, ids)
                          /\ a.ids \subseteq acc.ids
                          /\ \A id \in a.ids : id > n
           R == {n \in Nat : n <= Len(log) => Right(fold[n], n)}
<1>8. acc.ids \subseteq ids /\ \A id \in ids : id \in Through(pt) /\ id \in 1 .. Len(log) /\ id \in Nat
  BY NodeIs DEF AccRight, Checking
<1>9. 0 \in R
  <2>1. \A id \in acc.ids : id > 0
    BY <1>3, <1>8
  <2> QED BY <1>6, <2>1
<1>10. ASSUME NEW n \in Nat, n + 1 <= Len(log), NEW a, Right(a, n) PROVE Right(Descend(a, n + 1), n + 1)
  <2> DEFINE id     == n + 1
             branch == Branch(pt, id)
             c      == a.ids \cap nodes[branch].key
             r      == check[branch][Call(c, a.memo)]
  <2>1. Descend(a, id) = IF id \in a.ids THEN Decided(a, r.holds, r.fails, r.memo) ELSE a
    OBVIOUS
  <2>2. CASE id \notin a.ids
    <3>1. \A x \in a.ids : x > n + 1
      BY <1>8, <1>10, <2>2
    <3> HIDE DEF Descend
    <3> QED BY <1>10, <2>1, <2>2, <3>1
  <2>3. CASE id \in a.ids
    <3> HIDE DEF Descend
    <3>1. id \in Through(pt) /\ a.ids \subseteq ids /\ MemoryRight(a.memo)
      BY <1>8, <1>10, <2>3 DEF AccRight
    <3> HIDE DEF id, r
    <3>2. branch \in Children(nodes, pt) /\ id \in Through(branch)
      BY <3>1, BranchIs DEF Checking
    <3>3. /\ branch \in DOMAIN nodes /\ Len(branch) = Len(pt) + 1
          /\ nodes[branch].key = Through(branch)
      BY <3>2, ChildIs, NodesAre DEF Checking, Through
    <3> HIDE DEF branch
    <3>4. c \in SUBSET Through(branch) /\ id \in c /\ c \subseteq a.ids
      BY <2>3, <3>2, <3>3
    <3> HIDE DEF c
    <3>5. Answers(r, g, branch, c)
      BY <3>1, <3>2, <3>4 DEF AnswersAll, r
    <3>6. \A x \in c : HoldsAt(f, pt, x) <=> HoldsAt(g, branch, x)
      BY <1>10, <3>3, <3>4 DEF HoldsAt, HoldsNext
    <3>7. Decidable(a, f, pt, ids, r.holds, r.fails, r.memo) /\ r.holds \cup r.fails = c
      BY <1>10, <3>4, <3>5, <3>6 DEF Answers, Decidable
    <3>8. AccRight(Descend(a, id), f, pt, ids) /\ Descend(a, id).ids = a.ids \ c
      BY <2>1, <2>3, <3>7, DecidedRight
    <3>9. \A x \in a.ids \ c : x > n + 1
      <4>1. \A x \in a.ids \ c : x \in Nat /\ x > n /\ x # id
        BY <1>8, <1>10, <3>4
      <4> QED BY <4>1 DEF id
    <3> QED BY <1>10, <3>8, <3>9 DEF id
  <2> QED BY <2>2, <2>3
<1>11. ASSUME NEW n \in Nat, n \in R PROVE n + 1 \in R
  <2> SUFFICES ASSUME n + 1 <= Len(log) PROVE Right(fold[n + 1], n + 1)
    OBVIOUS
  <2> HIDE DEF Descend, Right
  <2>1. Right(fold[n], n) /\ fold[n + 1] = Descend(fold[n], n + 1)
    BY <1>3, <1>7, <1>11
  <2> QED BY <1>10, <2>1
<1>12. Right(fold[Len(log)], Len(log))
  <2> HIDE DEF R
  <2>1. Nat \subseteq R
    BY <1>9, <1>11, NatSetInduction
  <2> QED BY <1>3, <2>1 DEF R
<1>13. fold[Len(log)].ids = {}
  <2>1. \A id \in fold[Len(log)].ids : id > Len(log) /\ id \in 1 .. Len(log)
    BY <1>8, <1>12
  <2> QED BY <1>3, <2>1
<1> QED BY <1>5, <1>12, <1>13 DEF Settled

\* Xor and Equiv.
LEMMA CompareRight ==
  ASSUME Checking, NEW f \in Language, f.op \in {"Xor", "Equiv"}, NEW pt \in DOMAIN nodes,
         NEW ids \in SUBSET Through(pt), NEW acc, AccRight(acc, f, pt, ids),
         NEW first, AnswersAll(first, f.first, pt), NEW second, AnswersAll(second, f.second, pt)
  PROVE  Settled(CompareCheck(f, first, second, acc), f, pt, ids)
<1> DEFINE q      == second[Call(acc.ids, acc.memo)]
           p      == first[Call(acc.ids, q.memo)]
           differ == (p.holds \cap q.fails) \cup (p.fails \cap q.holds)
           agree  == (p.holds \cap q.holds) \cup (p.fails \cap q.fails)
<1>1. acc.ids \in SUBSET Through(pt) /\ MemoryRight(acc.memo)
  BY DEF AccRight
<1>2. Answers(q, f.second, pt, acc.ids)
  BY <1>1 DEF AnswersAll
<1> HIDE DEF q
<1>3. Answers(p, f.first, pt, acc.ids)
  BY <1>1, <1>2 DEF AnswersAll, Answers
<1> HIDE DEF p
<1>4. /\ f.first \in Language /\ f.second \in Language
      /\ \A id \in acc.ids : /\ HoldsAt(f.first, pt, id) \in BOOLEAN
                             /\ HoldsAt(f.second, pt, id) \in BOOLEAN
  <2>1. f.first \in Language /\ f.second \in Language
    BY OperandsAre, OperandsInLanguage
  <2> QED BY <1>1, <2>1, HoldsAtBoolean DEF Checking
<1>5. \A id \in acc.ids :
        HoldsAt(f, pt, id) <=> IF f.op = "Xor" THEN HoldsAt(f.first, pt, id) # HoldsAt(f.second, pt, id)
                               ELSE HoldsAt(f.first, pt, id) = HoldsAt(f.second, pt, id)
  BY <1>1, MeansAt
<1>6. /\ differ \cup agree = acc.ids
      /\ \A id \in differ : HoldsAt(f.first, pt, id) # HoldsAt(f.second, pt, id)
      /\ \A id \in agree : HoldsAt(f.first, pt, id) = HoldsAt(f.second, pt, id)
  BY <1>2, <1>3, <1>4 DEF Answers
<1>7. CompareCheck(f, first, second, acc) = IF f.op = "Xor" THEN Decided(acc, differ, agree, p.memo)
                                            ELSE Decided(acc, agree, differ, p.memo)
  BY DEF CompareCheck, p, q
<1> HIDE DEF differ, agree
<1>8. MemoryRight(p.memo)
  BY <1>3 DEF Answers
<1>9. CASE f.op = "Xor"
  <2>1. Decidable(acc, f, pt, ids, differ, agree, p.memo)
    BY <1>5, <1>6, <1>8, <1>9 DEF Decidable
  <2> QED BY <1>6, <1>7, <1>9, <2>1, DecidedRight DEF Settled
<1>10. CASE f.op = "Equiv"
  <2>1. Decidable(acc, f, pt, ids, agree, differ, p.memo)
    BY <1>5, <1>6, <1>8, <1>10 DEF Decidable
  <2> QED BY <1>6, <1>7, <1>10, <2>1, DecidedRight DEF Settled
<1> QED BY <1>9, <1>10

\* Implies.
LEMMA ImpliesRight ==
  ASSUME Checking, NEW f \in Language, f.op = "Implies", NEW pt \in DOMAIN nodes,
         NEW ids \in SUBSET Through(pt), NEW acc, AccRight(acc, f, pt, ids),
         NEW first, AnswersAll(first, f.first, pt), NEW second, AnswersAll(second, f.second, pt)
  PROVE  Settled(ImpliesCheck(first, second, acc), f, pt, ids)
<1> DEFINE p    == first[Call(acc.ids, acc.memo)]
           rest == AddSatisfying(acc, p.fails, p.holds, p.memo, TRUE)
           q    == second[Call(rest.ids, rest.memo)]
<1>1. acc.ids \in SUBSET Through(pt) /\ MemoryRight(acc.memo)
  BY DEF AccRight
<1>2. Answers(p, f.first, pt, acc.ids)
  BY <1>1 DEF AnswersAll
<1> HIDE DEF p
<1>3. \A id \in acc.ids :
        HoldsAt(f, pt, id) <=> (HoldsAt(f.first, pt, id) => HoldsAt(f.second, pt, id))
  BY <1>1, MeansAt
<1>4. Decidable(acc, f, pt, ids, p.fails, {}, p.memo)
  BY <1>2, <1>3 DEF Decidable, Answers
<1>5. rest = Decided(acc, p.fails, {}, p.memo)
  BY DEF AddSatisfying
<1> HIDE DEF rest
<1>6. AccRight(rest, f, pt, ids) /\ rest.ids = acc.ids \ (p.fails \cup {})
  BY <1>4, <1>5, DecidedRight
<1>7. ImpliesCheck(first, second, acc)
        = IF rest.ids = {} THEN rest ELSE Decided(rest, q.holds, q.fails, q.memo)
  BY DEF ImpliesCheck, p, rest
<1>8. Answers(q, f.second, pt, rest.ids)
  <2>1. rest.ids \in SUBSET Through(pt) /\ MemoryRight(rest.memo)
    BY <1>1, <1>6 DEF AccRight
  <2> QED BY <2>1 DEF AnswersAll
<1> HIDE DEF q
<1>9. \A id \in rest.ids : HoldsAt(f, pt, id) <=> HoldsAt(f.second, pt, id)
  BY <1>2, <1>3, <1>6 DEF Answers
<1>10. Decidable(rest, f, pt, ids, q.holds, q.fails, q.memo) /\ q.holds \cup q.fails = rest.ids
  BY <1>6, <1>8, <1>9 DEF Decidable, Answers
<1>11. Settled(Decided(rest, q.holds, q.fails, q.memo), f, pt, ids)
  BY <1>10, DecidedRight DEF Settled
<1> QED BY <1>6, <1>7, <1>11 DEF Settled

\* Not.
LEMMA NotRight ==
  ASSUME Checking, NEW f \in Language, f.op = "Not", NEW pt \in DOMAIN nodes,
         NEW ids \in SUBSET Through(pt), NEW acc, AccRight(acc, f, pt, ids),
         NEW kid, AnswersAll(kid, f.kid, pt)
  PROVE  Settled(NotCheck(kid, acc), f, pt, ids)
<1> DEFINE p == kid[Call(acc.ids, acc.memo)]
<1>1. acc.ids \in SUBSET Through(pt) /\ MemoryRight(acc.memo)
  BY DEF AccRight
<1>2. Answers(p, f.kid, pt, acc.ids)
  BY <1>1 DEF AnswersAll
<1>3. NotCheck(kid, acc) = Decided(acc, p.fails, p.holds, p.memo)
  BY DEF NotCheck
<1> HIDE DEF p
<1>4. \A id \in acc.ids : HoldsAt(f, pt, id) <=> ~ HoldsAt(f.kid, pt, id)
  BY <1>1, MeansAt
<1>5. Decidable(acc, f, pt, ids, p.fails, p.holds, p.memo) /\ p.fails \cup p.holds = acc.ids
  BY <1>2, <1>4 DEF Decidable, Answers
<1> QED BY <1>3, <1>5, DecidedRight DEF Settled

\* G and F: where the operand decides, at this event, and elsewhere further down.
LEMMA UnaryLoopRight ==
  ASSUME Checking, NEW f \in Language, f.op \in {"G", "F"},
         NEW pt \in DOMAIN nodes, ~ IsTerminalNode(pt),
         NEW ids \in SUBSET Through(pt), NEW acc, AccRight(acc, f, pt, ids),
         NEW kid, AnswersAll(kid, f.kid, pt),
         NEW check, \A child \in Children(nodes, pt) : AnswersAll(check[child], f, child)
  PROVE  /\ f.op = "G" => Settled(GloballyCheck(kid, check, pt, acc), f, pt, ids)
         /\ f.op = "F" => Settled(FinallyCheck(kid, check, pt, acc), f, pt, ids)
<1> DEFINE value == f.op = "F"
           d     == Decide(acc, kid, value)
<1>1. acc.ids \subseteq Through(pt)
  BY DEF AccRight
<1>2. \A id \in acc.ids :
        /\ (HoldsAt(f.kid, pt, id) <=> value) => (HoldsAt(f, pt, id) <=> value)
        /\ (HoldsAt(f.kid, pt, id) <=> ~ value) => (HoldsAt(f, pt, id) <=> HoldsNext(f, pt, id))
  BY <1>1, LoopMeansAt
<1>3. value \in BOOLEAN
  OBVIOUS
<1> HIDE DEF value
<1>4. /\ AccRight(d, f, pt, ids) /\ d.ids \subseteq acc.ids
      /\ \A id \in d.ids : HoldsAt(f.kid, pt, id) <=> ~ value
  <2>1. MayDecide(acc, f, pt, ids, kid, f.kid, value)
    BY <1>2, <1>3 DEF MayDecide
  <2> QED BY <2>1, DecideRight
<1> HIDE DEF d
<1>5. \A id \in d.ids : HoldsAt(f, pt, id) <=> HoldsNext(f, pt, id)
  BY <1>2, <1>4
<1>6. Settled(OnKids(d, check, pt), f, pt, ids)
  BY <1>4, <1>5, OnKidsRight
<1>7. /\ f.op = "G" => GloballyCheck(kid, check, pt, acc) = OnKids(d, check, pt)
      /\ f.op = "F" => FinallyCheck(kid, check, pt, acc) = OnKids(d, check, pt)
  BY DEF GloballyCheck, FinallyCheck, d, value
<1> QED BY <1>6, <1>7

\* U and W: where the second operand decides; where it does not, where the first one does.
LEMMA UntilRight ==
  ASSUME Checking, NEW f \in Language, f.op \in {"U", "W"},
         NEW pt \in DOMAIN nodes, ~ IsTerminalNode(pt),
         NEW ids \in SUBSET Through(pt), NEW acc, AccRight(acc, f, pt, ids),
         NEW first, AnswersAll(first, f.first, pt), NEW second, AnswersAll(second, f.second, pt),
         NEW check, \A child \in Children(nodes, pt) : AnswersAll(check[child], f, child)
  PROVE  Settled(UntilCheck(first, second, check, pt, acc), f, pt, ids)
<1> DEFINE d == Decide(acc, second, TRUE)
           e == Decide(d, first, FALSE)
<1>1. acc.ids \subseteq Through(pt)
  BY DEF AccRight
<1>2. \A id \in acc.ids :
        HoldsAt(f, pt, id) <=> \/ HoldsAt(f.second, pt, id)
                               \/ HoldsAt(f.first, pt, id) /\ HoldsNext(f, pt, id)
  BY <1>1, LoopMeansAt
<1>3. /\ AccRight(d, f, pt, ids) /\ d.ids \subseteq acc.ids
      /\ \A id \in d.ids : HoldsAt(f.second, pt, id) <=> ~ TRUE
  <2>1. MayDecide(acc, f, pt, ids, second, f.second, TRUE)
    BY <1>2 DEF MayDecide
  <2> QED BY <2>1, DecideRight
<1> HIDE DEF d
<1>4. /\ AccRight(e, f, pt, ids) /\ e.ids \subseteq d.ids
      /\ \A id \in e.ids : HoldsAt(f.first, pt, id) <=> ~ FALSE
  <2>1. MayDecide(d, f, pt, ids, first, f.first, FALSE)
    BY <1>2, <1>3 DEF MayDecide
  <2> QED BY <2>1, DecideRight
<1> HIDE DEF e
<1>5. \A id \in e.ids : HoldsAt(f, pt, id) <=> HoldsNext(f, pt, id)
  BY <1>2, <1>3, <1>4
<1>6. Settled(OnKids(e, check, pt), f, pt, ids)
  BY <1>4, <1>5, OnKidsRight
<1> QED BY <1>6 DEF UntilCheck, d, e

\* R and M.
LEMMA ReleaseRight ==
  ASSUME Checking, NEW f \in Language, f.op \in {"R", "M"},
         NEW pt \in DOMAIN nodes, ~ IsTerminalNode(pt),
         NEW ids \in SUBSET Through(pt), NEW acc, AccRight(acc, f, pt, ids),
         NEW first, AnswersAll(first, f.first, pt), NEW second, AnswersAll(second, f.second, pt),
         NEW check, \A child \in Children(nodes, pt) : AnswersAll(check[child], f, child)
  PROVE  Settled(ReleaseCheck(first, second, check, pt, acc), f, pt, ids)
<1> DEFINE d == Decide(acc, second, FALSE)
           e == Decide(d, first, TRUE)
<1>1. acc.ids \subseteq Through(pt)
  BY DEF AccRight
<1>2. \A id \in acc.ids :
        HoldsAt(f, pt, id) <=> /\ HoldsAt(f.second, pt, id)
                               /\ HoldsAt(f.first, pt, id) \/ HoldsNext(f, pt, id)
  BY <1>1, LoopMeansAt
<1>3. /\ AccRight(d, f, pt, ids) /\ d.ids \subseteq acc.ids
      /\ \A id \in d.ids : HoldsAt(f.second, pt, id) <=> ~ FALSE
  <2>1. MayDecide(acc, f, pt, ids, second, f.second, FALSE)
    BY <1>2 DEF MayDecide
  <2> QED BY <2>1, DecideRight
<1> HIDE DEF d
<1>4. /\ AccRight(e, f, pt, ids) /\ e.ids \subseteq d.ids
      /\ \A id \in e.ids : HoldsAt(f.first, pt, id) <=> ~ TRUE
  <2>1. MayDecide(d, f, pt, ids, first, f.first, TRUE)
    BY <1>2, <1>3 DEF MayDecide
  <2> QED BY <2>1, DecideRight
<1> HIDE DEF e
<1>5. \A id \in e.ids : HoldsAt(f, pt, id) <=> HoldsNext(f, pt, id)
  BY <1>2, <1>3, <1>4
<1>6. Settled(OnKids(e, check, pt), f, pt, ids)
  BY <1>4, <1>5, OnKidsRight
<1> QED BY <1>6 DEF ReleaseCheck, d, e

\* And and Or.
LEMMA MultopRight ==
  ASSUME Checking, NEW f \in Language, f.op \in {"And", "Or"}, NEW pt \in DOMAIN nodes,
         NEW ids \in SUBSET Through(pt), NEW acc, AccRight(acc, f, pt, ids),
         NEW kids, DOMAIN kids = DOMAIN f.kids, Len(kids) \in Nat, DOMAIN kids = 1 .. Len(kids),
         \A n \in DOMAIN kids : AnswersAll(kids[n], f.kids[n], pt)
  PROVE  Settled(MultopCheck(kids, f.op = "Or", acc), f, pt, ids)
<1> DEFINE value == f.op = "Or"
           Body(h, n) == IF n = 0 THEN acc ELSE Decide(h[n - 1], kids[n], value)
           IsOn(h, m) == h = [n \in 0 .. m |-> Body(h, n)]
           N == {m \in Nat : \E h : IsOn(h, m)}
<1>1. 0 \in N
  <2>1. IsOn([n \in 0 .. 0 |-> acc], 0)
    OBVIOUS
  <2> QED BY <2>1
<1>2. ASSUME NEW m \in Nat, m \in N PROVE m + 1 \in N
  <2>1. PICK p : IsOn(p, m)
    BY <1>2
  <2> DEFINE q == [n \in 0 .. m + 1 |-> Body(p, n)]
  <2>2. \A n \in 0 .. m : p[n] = Body(p, n)
    BY <2>1
  <2>3. \A n \in 0 .. m : q[n] = p[n]
    BY <2>2
  <2> HIDE DEF q
  <2>4. \A n \in 0 .. m + 1 : Body(q, n) = Body(p, n)
    <3> SUFFICES ASSUME NEW n \in 0 .. m + 1 PROVE Body(q, n) = Body(p, n)
      OBVIOUS
    <3>1. n = 0 \/ n - 1 \in 0 .. m
      OBVIOUS
    <3> QED BY <3>1, <2>3
  <2>5. IsOn(q, m + 1)
    <3> HIDE DEF Body
    <3> QED BY <2>4 DEF q
  <2> HIDE DEF IsOn
  <2> QED BY <2>5
<1>3. Len(kids) \in N
  <2> HIDE DEF N
  <2>1. Nat \subseteq N
    BY <1>1, <1>2, NatSetInduction
  <2> QED BY <2>1
<1>4. PICK fold : IsOn(fold, Len(kids)) /\ MultopCheck(kids, value, acc) = Settle(fold[Len(kids)], ~ value)
  BY <1>3 DEF MultopCheck
<1>5. fold[0] = acc
  BY <1>4
<1>6. \A n \in 0 .. Len(kids) - 1 : fold[n + 1] = Decide(fold[n], kids[n + 1], value)
  BY <1>4
<1>7. ids \subseteq Through(pt) /\ acc.ids \subseteq ids
  BY DEF AccRight
<1>8. \A id \in ids :
        /\ \A n \in DOMAIN kids : (HoldsAt(f.kids[n], pt, id) <=> value) => (HoldsAt(f, pt, id) <=> value)
        /\ (\A n \in DOMAIN kids : HoldsAt(f.kids[n], pt, id) <=> ~ value)
             => (HoldsAt(f, pt, id) <=> ~ value)
  BY <1>7, MeansAt
<1>9. value \in BOOLEAN
  OBVIOUS
<1> DEFINE Right(a, n) == /\ AccRight(a, f, pt, ids)
                          /\ \A id \in a.ids : \A m \in 1 .. n : HoldsAt(f.kids[m], pt, id) <=> ~ value
           R == {n \in Nat : n <= Len(kids) => Right(fold[n], n)}
<1> HIDE DEF value
<1>10. 0 \in R
  BY <1>5
<1>11. ASSUME NEW n \in Nat, n + 1 \in DOMAIN kids, NEW a, Right(a, n)
       PROVE  Right(Decide(a, kids[n + 1], value), n + 1)
  <2> DEFINE d == Decide(a, kids[n + 1], value)
  <2>1. MayDecide(a, f, pt, ids, kids[n + 1], f.kids[n + 1], value)
    <3>1. a.ids \subseteq ids
      BY <1>11 DEF AccRight
    <3> QED BY <1>7, <1>8, <1>9, <1>11, <3>1 DEF MayDecide
  <2>2. /\ AccRight(d, f, pt, ids) /\ d.ids \subseteq a.ids
        /\ \A id \in d.ids : HoldsAt(f.kids[n + 1], pt, id) <=> ~ value
    BY <2>1, DecideRight
  <2> HIDE DEF d
  <2>3. \A m \in 1 .. n + 1 : m \in 1 .. n \/ m = n + 1
    OBVIOUS
  <2>4. Right(d, n + 1)
    BY <1>11, <2>2, <2>3
  <2> QED BY <2>4 DEF d
<1>12. ASSUME NEW n \in Nat, n \in R PROVE n + 1 \in R
  <2> SUFFICES ASSUME n + 1 <= Len(kids) PROVE Right(fold[n + 1], n + 1)
    OBVIOUS
  <2>1. n + 1 \in DOMAIN kids /\ n \in 0 .. Len(kids) - 1
    OBVIOUS
  <2> HIDE DEF Right
  <2>2. Right(fold[n], n) /\ fold[n + 1] = Decide(fold[n], kids[n + 1], value)
    BY <1>6, <1>12, <2>1
  <2> QED BY <1>11, <2>1, <2>2
<1>13. Right(fold[Len(kids)], Len(kids))
  <2> HIDE DEF R
  <2>1. Nat \subseteq R
    BY <1>10, <1>12, NatSetInduction
  <2> QED BY <2>1 DEF R
<1> DEFINE last == fold[Len(kids)]
<1>14. AccRight(last, f, pt, ids) /\ \A id \in last.ids : HoldsAt(f, pt, id) <=> ~ value
  <2>1. last.ids \subseteq ids
    BY <1>13 DEF AccRight
  <2> QED BY <1>8, <1>13, <2>1
<1> HIDE DEF last
<1>15. Settled(Settle(last, ~ value), f, pt, ids)
  <2>1. (~ value) \in BOOLEAN
    OBVIOUS
  <2> QED BY <1>14, <2>1, SettleRight
<1> QED BY <1>4, <1>15 DEF last, value

\* The checks that an operator of a formula is given.
OperandsAnswer(f, pt, operands, check) ==
  /\ \A p \in Operands(f) : AnswersAll(operands[p][pt], p, pt)
  /\ \A p \in Operands(f) : \A child \in Children(nodes, pt) : AnswersAll(operands[p][child], p, child)
  /\ \A child \in Children(nodes, pt) : AnswersAll(check[child], f, child)

\* Each operator decides all the ids.
LEMMA OperatorRight ==
  ASSUME Checking, NEW f \in Language, f.op \notin {"ap", "true", "false"}, NEW pt \in DOMAIN nodes,
         ~ (IsTerminalNode(pt) /\ f.op \in TemporalOperators \cup {"X"}),
         NEW ids \in SUBSET Through(pt), NEW acc, AccRight(acc, f, pt, ids),
         NEW operands, NEW check, OperandsAnswer(f, pt, operands, check)
  PROVE  Settled(Operator(f, pt, operands, check, acc), f, pt, ids)
<1> DEFINE kid    == operands[f.kid][pt]
           first  == operands[f.first][pt]
           second == operands[f.second][pt]
           kids   == [n \in DOMAIN f.kids |-> operands[f.kids[n]][pt]]
           r      == Operator(f, pt, operands, check, acc)
<1>1. WellFormed(f)
  BY LevelsAssumption
<1>2. /\ f.op = "Not" => r = NotCheck(kid, acc)
      /\ f.op = "X" => r = OnKids(acc, operands[f.kid], pt)
      /\ f.op = "G" => r = GloballyCheck(kid, check, pt, acc)
      /\ f.op = "F" => r = FinallyCheck(kid, check, pt, acc)
      /\ f.op \in {"Xor", "Equiv"} => r = CompareCheck(f, first, second, acc)
      /\ f.op = "Implies" => r = ImpliesCheck(first, second, acc)
      /\ f.op \in {"U", "W"} => r = UntilCheck(first, second, check, pt, acc)
      /\ f.op \in {"R", "M"} => r = ReleaseCheck(first, second, check, pt, acc)
      /\ f.op \in {"And", "Or"} => r = MultopCheck(kids, f.op = "Or", acc)
  BY DEF Operator, WeakUntilCheck, StrongReleaseCheck, OrCheck, AndCheck
<1>3. f.op \in {"Not", "X", "G", "F"} => f.kid \in Operands(f) /\ AnswersAll(kid, f.kid, pt)
  BY OperandsAre DEF OperandsAnswer
<1>4. f.op \in {"U", "W", "R", "M", "Xor", "Equiv", "Implies"}
        => AnswersAll(first, f.first, pt) /\ AnswersAll(second, f.second, pt)
  BY OperandsAre DEF OperandsAnswer
<1>5. \A child \in Children(nodes, pt) : AnswersAll(check[child], f, child)
  BY DEF OperandsAnswer
<1>6. f.op \in {"And", "Or"} =>
        /\ DOMAIN kids = DOMAIN f.kids /\ Len(kids) \in Nat /\ DOMAIN kids = 1 .. Len(kids)
        /\ \A n \in DOMAIN kids : AnswersAll(kids[n], f.kids[n], pt)
  <2> SUFFICES ASSUME f.op \in {"And", "Or"}
               PROVE  /\ DOMAIN kids = DOMAIN f.kids /\ Len(kids) \in Nat /\ DOMAIN kids = 1 .. Len(kids)
                      /\ \A n \in DOMAIN kids : AnswersAll(kids[n], f.kids[n], pt)
    OBVIOUS
  <2>1. f.kids \in Seq(Operands(f))
    BY <1>1 DEF WellFormed, Multiples
  <2>2. DOMAIN f.kids = 1 .. Len(f.kids) /\ Len(f.kids) \in Nat
    BY <2>1
  <2>3. Len(kids) = Len(f.kids)
    BY <2>2
  <2>4. \A n \in DOMAIN f.kids : f.kids[n] \in Operands(f)
    BY <2>1
  <2> QED BY <2>2, <2>3, <2>4 DEF OperandsAnswer
<1> HIDE DEF kid, first, second, kids, r
<1>7. CASE f.op \in {"Xor", "Equiv"}
  BY <1>2, <1>4, <1>7, CompareRight DEF r
<1>8. CASE f.op = "Implies"
  BY <1>2, <1>4, <1>8, ImpliesRight DEF r
<1>9. CASE f.op = "Not"
  BY <1>2, <1>3, <1>9, NotRight DEF r
<1>10. CASE f.op = "X"
  <2>1. ~ IsTerminalNode(pt) /\ acc.ids \subseteq Through(pt)
    BY <1>10 DEF AccRight
  <2>2. \A child \in Children(nodes, pt) : AnswersAll(operands[f.kid][child], f.kid, child)
    BY <1>3, <1>10 DEF OperandsAnswer
  <2>3. \A id \in acc.ids : HoldsAt(f, pt, id) = HoldsNext(f.kid, pt, id)
    BY <1>10, <2>1, MeansAt
  <2> DEFINE g == f.kid
             step == operands[g]
  <2> HIDE DEF g, step
  <2>4. Settled(OnKids(acc, step, pt), f, pt, ids)
    <3>1. \A child \in Children(nodes, pt) : AnswersAll(step[child], g, child)
      BY <2>2 DEF step, g
    <3>2. \A id \in acc.ids : HoldsAt(f, pt, id) <=> HoldsNext(g, pt, id)
      BY <2>3 DEF g
    <3> QED BY <2>1, <3>1, <3>2, OnKidsRight
  <2> QED BY <1>2, <1>10, <2>4 DEF r, step, g
<1>11. CASE f.op \in {"G", "F"}
  <2>1. ~ IsTerminalNode(pt)
    BY <1>11 DEF TemporalOperators
  <2> QED BY <1>2, <1>3, <1>5, <1>11, <2>1, UnaryLoopRight DEF r
<1>12. CASE f.op \in {"U", "W"}
  <2>1. ~ IsTerminalNode(pt)
    BY <1>12 DEF TemporalOperators
  <2> QED BY <1>2, <1>4, <1>5, <1>12, <2>1, UntilRight DEF r
<1>13. CASE f.op \in {"R", "M"}
  <2>1. ~ IsTerminalNode(pt)
    BY <1>13 DEF TemporalOperators
  <2> QED BY <1>2, <1>4, <1>5, <1>13, <2>1, ReleaseRight DEF r
<1>14. CASE f.op \in {"And", "Or"}
  BY <1>2, <1>6, <1>14, MultopRight DEF r
<1> QED BY <1>1, <1>7, <1>8, <1>9, <1>10, <1>11, <1>12, <1>13, <1>14
    DEF WellFormed, Operators, Constants, UnaryOperators, BinaryOperators, Multiples

-----------------------------------------------------------------------------
(***************************************************************************)
(* check.                                                                  *)
(***************************************************************************)

\* A check of a formula at a node answers, where those it calls do.
LEMMA CheckAtRight ==
  ASSUME Checking, NEW f \in Language, NEW pt \in DOMAIN nodes,
         NEW ids \in SUBSET Through(pt), NEW memo, MemoryRight(memo),
         NEW operands, NEW check, OperandsAnswer(f, pt, operands, check)
  PROVE  Answers(CheckAt(f, pt, operands, check, Call(ids, memo)), f, pt, ids)
<1> DEFINE call  == Call(ids, memo)
           start == Start(call)
           acc   == Retrieve(f, pt, call)
           r     == CheckAt(f, pt, operands, check, call)
<1>1. AccRight(start, f, pt, ids) /\ start.ids = ids
  BY StartRight
<1>2. \A id \in ids : id \in Through(pt)
  OBVIOUS
<1> HIDE DEF r, start, acc
<1>3. CASE f.op \in {"ap", "true", "false"}
  <2> DEFINE value == IF f.op = "ap" THEN ApHoldsAt(f, pt) ELSE f.op = "true"
  <2>1. r = Settle(start, value)
    BY <1>3 DEF CheckAt, r, start
  <2>2. \A id \in start.ids : HoldsAt(f, pt, id) <=> value
    BY <1>1, <1>2, <1>3, MeansAt
  <2>3. value \in BOOLEAN
    BY DEF ApHoldsAt
  <2> HIDE DEF value
  <2>4. Settled(r, f, pt, ids)
    BY <1>1, <2>1, <2>2, <2>3, SettleRight
  <2> QED BY <2>4, SettledAnswers DEF r
<1>4. CASE f.op = "X" /\ IsTerminalNode(pt)
  <2>1. r = operands[f.kid][pt][call]
    BY <1>4 DEF CheckAt, r
  <2>2. AnswersAll(operands[f.kid][pt], f.kid, pt)
    BY <1>4, OperandsAre DEF OperandsAnswer
  <2>3. Answers(r, f.kid, pt, ids)
    BY <2>1, <2>2 DEF AnswersAll
  <2>4. \A id \in ids : HoldsAt(f, pt, id) = HoldsAt(f.kid, pt, id)
    BY <1>2, <1>4, MeansAt
  <2> QED BY <2>3, <2>4 DEF Answers, r
<1>5. CASE f.op \notin {"ap", "true", "false"} /\ ~ (f.op = "X" /\ IsTerminalNode(pt))
  <2>1. /\ AccRight(acc, f, pt, ids)
        /\ IsTerminalNode(pt) /\ f.op \in TemporalOperators => acc.ids = ids
    BY RetrieveRight DEF acc
  <2>2. r = IF acc.ids = {} THEN acc
            ELSE IF IsTerminalNode(pt) /\ f.op \in {"G", "F", "U", "W", "R", "M"}
            THEN AtTerminal(f, acc)
            ELSE AddToMemo(f, pt, Operator(f, pt, operands, check, acc))
    BY <1>5 DEF CheckAt, r, acc
  <2>3. CASE acc.ids = {}
    <3>1. Settled(r, f, pt, ids)
      BY <2>1, <2>2, <2>3 DEF Settled
    <3> QED BY <3>1, SettledAnswers DEF r
  <2>4. CASE acc.ids # {} /\ IsTerminalNode(pt) /\ f.op \in TemporalOperators
    <3> DEFINE left  == Start(Call(acc.ids, acc.memo))
               value == f.op \notin {"U", "M", "F"}
    <3>1. r = Settle(left, value)
      <4>1. r = AtTerminal(f, acc)
        BY <2>2, <2>4 DEF TemporalOperators
      <4> QED BY <4>1, Zenon DEF AtTerminal
    <3>2. AccRight(left, f, pt, ids) /\ left.ids = ids
      <4>1. acc.ids = ids /\ MemoryRight(acc.memo)
        BY <2>1, <2>4 DEF AccRight
      <4> HIDE DEF acc
      <4> QED BY <4>1, StartRight
    <3>3. \A id \in left.ids : HoldsAt(f, pt, id) <=> value
      BY <1>2, <2>4, <3>2, LoopMeansAt
    <3>4. value \in BOOLEAN
      OBVIOUS
    <3> HIDE DEF value, left
    <3>5. Settled(r, f, pt, ids)
      BY <3>1, <3>2, <3>3, <3>4, SettleRight
    <3> QED BY <3>5, SettledAnswers DEF r
  <2>5. CASE acc.ids # {} /\ ~ (IsTerminalNode(pt) /\ f.op \in TemporalOperators)
    <3> DEFINE done == Operator(f, pt, operands, check, acc)
    <3>1. r = AddToMemo(f, pt, done)
      BY <2>2, <2>5 DEF TemporalOperators
    <3>2. Settled(done, f, pt, ids)
      BY <1>5, <2>1, <2>5, OperatorRight
    <3> HIDE DEF done
    <3>3. Settled(r, f, pt, ids)
      BY <2>5, <3>1, <3>2, AddToMemoRight
    <3> QED BY <3>3, SettledAnswers DEF r
  <2> QED BY <2>3, <2>4, <2>5
<1> QED BY <1>3, <1>4, <1>5

\* What may be asked of a check.
LEMMA CallsAre ==
  ASSUME Checking, NEW pt \in DOMAIN nodes, NEW ids \in SUBSET Through(pt),
         NEW memo, MemoryRight(memo)
  PROVE  Call(ids, memo) \in Calls
<1>1. ids \in SUBSET Nat
  BY NodeIs DEF Checking
<1>2. memo \in SUBSET Entries
  BY DEF MemoryRight
<1> QED BY <1>1, <1>2 DEF Call, Calls

\* Every check answers, for every formula of the language, at every node of the tree.
LEMMA CheckAnswers ==
  ASSUME Checking, NEW f \in Language, NEW pt \in DOMAIN nodes
  PROVE  AnswersAll(CheckOn[f][pt], f, pt)
<1> DEFINE S == {g \in Language : \A path \in DOMAIN nodes : AnswersAll(CheckOn[g][path], g, path)}
<1>1. ASSUME NEW g \in Language, Operands(g) \subseteq S PROVE g \in S
  <2> DEFINE T == {path \in DOMAIN nodes : AnswersAll(CheckOn[g][path], g, path)}
  <2>1. ASSUME NEW path \in DOMAIN nodes, Children(nodes, path) \subseteq T PROVE path \in T
    <3> DEFINE kids == ChildChecks(CheckOn[g], path)
    <3>1. OperandsAnswer(g, path, OperandChecks(g), kids)
      <4>1. \A child \in Children(nodes, path) : child \in DOMAIN nodes
        BY DEF Children
      <4>2. \A p \in Operands(g) : OperandChecks(g)[p] = CheckOn[p]
        BY DEF OperandChecks
      <4>3. \A child \in Children(nodes, path) : kids[child] = CheckOn[g][child]
        BY DEF ChildChecks
      <4> HIDE DEF kids
      <4>4. \A p \in Operands(g) : \A node \in DOMAIN nodes : AnswersAll(OperandChecks(g)[p][node], p, node)
        BY <1>1, <4>2
      <4>5. \A child \in Children(nodes, path) : AnswersAll(kids[child], g, child)
        BY <2>1, <4>3
      <4> QED BY <4>1, <4>4, <4>5 DEF OperandsAnswer
    <3>2. ASSUME NEW ids \in SUBSET Through(path), NEW memo, MemoryRight(memo)
          PROVE  Answers(CheckOn[g][path][Call(ids, memo)], g, path, ids)
      <4>1. Call(ids, memo) \in Calls
        BY <3>2, CallsAre
      <4>2. CheckOn[g][path][Call(ids, memo)]
              = CheckAt(g, path, OperandChecks(g), kids, Call(ids, memo))
        BY <4>1, CheckIs DEF Checking
      <4> HIDE DEF kids
      <4> QED BY <3>1, <3>2, <4>2, CheckAtRight
    <3> QED BY <3>2 DEF AnswersAll
  <2>2. DOMAIN nodes \subseteq T
    <3> HIDE DEF T
    <3> QED BY <2>1, TreeInduction DEF Checking
  <2> QED BY <2>2
<1>2. Language \subseteq S
  <2> HIDE DEF S
  <2> QED BY <1>1, LanguageInduction
<1> QED BY <1>2

\* The answer to a call: the ids the formula holds on, and a memory that is right.
THEOREM CheckAlwaysAnswers ==
  ASSUME Checking, NEW f \in Language, NEW pt \in DOMAIN nodes,
         NEW ids \in SUBSET nodes[pt].trace_ids, NEW memo, MemoryRight(memo)
  PROVE  LET r == Check(f, pt, ids, memo)
         IN /\ r.holds = {id \in ids : Holds(f, Under(instantiations, log[id]), Len(pt))}
            /\ r.fails = ids \ r.holds
            /\ MemoryRight(r.memo)
<1> DEFINE r == Check(f, pt, ids, memo)
<1>1. Answers(r, f, pt, ids)
  BY CheckAnswers DEF AnswersAll, Check, Through
<1> HIDE DEF r
<1>2. /\ r.holds = {id \in ids : HoldsAt(f, pt, id)}
      /\ r.fails = {id \in ids : ~ HoldsAt(f, pt, id)}
      /\ MemoryRight(r.memo)
  BY <1>1 DEF Answers
<1>3. r.fails = ids \ r.holds
  BY <1>2
<1> QED BY <1>2, <1>3 DEF r, HoldsAt

-----------------------------------------------------------------------------
(***************************************************************************)
(* The search.  The instantiation it is at is the binding the checker was  *)
(* given, without the constants.                                           *)
(***************************************************************************)
Current == Restrict(instantiations, Variables)

Starts == Children(nodes, NoNode)

\* While the traces are looked at: either the instantiation held on every trace of the
\* first events that are done with, or it failed on some trace and the loop is over.
InProgressRight ==
  /\ Current \in Bindings \ ToSet(untried)
  /\ instantiations = AsPassed(Current, ConstantEvents)
  /\ global_stat.sat => \A start \in Starts \ start_nodes : \A id \in Through(start) :
                          HoldsAt(prop_type, start, id)
  /\ ~ global_stat.sat => start_nodes = {} /\ ~ HoldsOnTheLog(Current)

\* The inductive invariant: what the search is about, the pool, the memory, the loop and
\* the findings so far.
QuestionRight == /\ prop_type \in Language
                 /\ TreeOfLog
                 /\ holding = {inst \in Bindings : HoldsOnTheLog(inst)}
PoolRight     == untried \in Seq(Bindings) /\ IsInjective(untried)
LoopRight     == /\ start_nodes \subseteq Starts
                 /\ global_stat \in Stats
                 /\ pc \in {"pool", "traces", "returned"}
                 /\ pc = "traces" => InProgressRight
FindingsRight == return_vec = Concluded \cap holding

Inv == QuestionRight /\ PoolRight /\ MemoryRight(memo_map) /\ LoopRight /\ FindingsRight

\* The pool without its first instantiation.
LEMMA TailIs ==
  ASSUME NEW S, NEW s \in Seq(S), s # <<>>, IsInjective(s)
  PROVE  /\ Tail(s) \in Seq(S) /\ IsInjective(Tail(s))
         /\ Head(s) \in S /\ Head(s) \notin ToSet(Tail(s))
         /\ ToSet(s) = ToSet(Tail(s)) \cup {Head(s)}
<1>1. Len(s) \in Nat \ {0} /\ DOMAIN s = 1 .. Len(s) /\ Head(s) = s[1] /\ s[1] \in S
  OBVIOUS
<1>2. /\ Tail(s) \in Seq(S) /\ Len(Tail(s)) = Len(s) - 1
      /\ DOMAIN Tail(s) = 1 .. Len(s) - 1
      /\ \A k \in 1 .. Len(s) - 1 : Tail(s)[k] = s[k + 1]
  OBVIOUS
<1>3. \A a, b \in 1 .. Len(s) : s[a] = s[b] => a = b
  BY <1>1 DEF IsInjective
<1> DEFINE t == Tail(s)
<1> HIDE DEF t
<1>4. IsInjective(t)
  <2> SUFFICES ASSUME NEW a \in DOMAIN t, NEW b \in DOMAIN t, t[a] = t[b] PROVE a = b
    BY DEF IsInjective
  <2>1. a \in 1 .. Len(s) - 1 /\ b \in 1 .. Len(s) - 1 /\ s[a + 1] = s[b + 1]
    BY <1>2 DEF t
  <2>2. a + 1 \in 1 .. Len(s) /\ b + 1 \in 1 .. Len(s)
    BY <1>1, <2>1
  <2>3. a + 1 = b + 1
    BY <1>3, <2>1, <2>2
  <2> QED BY <2>1, <2>3
<1>5. s[1] \notin ToSet(t)
  <2> SUFFICES ASSUME NEW k \in DOMAIN t, t[k] = s[1] PROVE FALSE
    BY DEF ToSet
  <2>1. k \in 1 .. Len(s) - 1 /\ s[k + 1] = s[1]
    BY <1>2 DEF t
  <2>2. k + 1 \in 1 .. Len(s) /\ 1 \in 1 .. Len(s) /\ k + 1 # 1
    BY <1>1, <2>1
  <2> QED BY <1>3, <2>1, <2>2
<1>6. ToSet(s) = ToSet(t) \cup {s[1]}
  <2>1. ASSUME NEW k \in DOMAIN s PROVE s[k] \in ToSet(t) \cup {s[1]}
    <3>1. CASE k = 1
      BY <3>1
    <3>2. CASE k # 1
      <4>1. k - 1 \in 1 .. Len(s) - 1 /\ (k - 1) + 1 = k
        BY <1>1, <3>2
      <4>2. k - 1 \in DOMAIN t /\ t[k - 1] = s[k]
        BY <1>2, <4>1 DEF t
      <4> QED BY <4>2 DEF ToSet
    <3> QED BY <3>1, <3>2
  <2>2. ASSUME NEW k \in DOMAIN t PROVE t[k] \in ToSet(s)
    <3>1. k + 1 \in DOMAIN s /\ t[k] = s[k + 1]
      BY <1>1, <1>2 DEF t
    <3> QED BY <3>1 DEF ToSet
  <2>3. s[1] \in ToSet(s)
    BY <1>1 DEF ToSet
  <2> QED BY <2>1, <2>2, <2>3 DEF ToSet
<1> QED BY <1>1, <1>2, <1>4, <1>5, <1>6 DEF t

\* An instantiation is what the checker is given, without the constants.
LEMMA PassedIs ==
  ASSUME NEW inst \in Bindings
  PROVE  LET passed == AsPassed(inst, ConstantEvents)
         IN /\ Restrict(passed, Variables) = inst
            /\ passed \in [DOMAIN passed -> EventNames]
<1> DEFINE passed == AsPassed(inst, ConstantEvents)
<1>1. inst \in [Variables -> EventNames] /\ DOMAIN inst = Variables
  BY DEF Bindings
<1>2. /\ DOMAIN passed = Variables \cup ConstantEvents
      /\ \A p \in Variables : passed[p] = inst[p]
      /\ \A p \in ConstantEvents \ Variables : passed[p] = p
  BY <1>1 DEF AsPassed
<1>3. passed = [p \in DOMAIN passed |-> passed[p]]
  BY DEF AsPassed
<1> HIDE DEF passed
<1>4. Restrict(passed, Variables) = inst
  BY <1>1, <1>2 DEF Restrict
<1>5. passed \in [DOMAIN passed -> EventNames]
  <2>1. \A p \in DOMAIN passed : passed[p] \in EventNames
    BY <1>1, <1>2, ConstantsAssumption
  <2> QED BY <1>3, <2>1
<1> QED BY <1>4, <1>5 DEF passed

\* The first events: every trace passes through one of them.
LEMMA StartsAre ==
  ASSUME TreeOfLog
  PROVE  /\ \A start \in Starts : /\ start \in DOMAIN nodes /\ Len(start) = 1
                                  /\ Through(start) \subseteq DOMAIN log
         /\ \A id \in DOMAIN log : \E start \in Starts : id \in Through(start)
<1>1. ASSUME NEW start \in Starts PROVE start \in DOMAIN nodes /\ Len(start) = 1
  BY DEF Starts, Children, NoNode
<1>2. \A start \in Starts : Through(start) \subseteq DOMAIN log
  BY <1>1, NodesAre DEF Through
<1>3. ASSUME NEW id \in DOMAIN log PROVE \E start \in Starts : id \in Through(start)
  <2> DEFINE start == SubSeq(EventsOf(log[id]), 1, 1)
  <2>1. log[id] \in Seq(SUBSET EventNames)
    BY DEF TreeOfLog
  <2>2. 1 \in 1 .. Terminal(log[id])
    BY <2>1, EventsAre
  <2>3. Len(start) = 1
    BY <2>1, <2>2, BeginningIs
  <2>4. Passing(start, id)
    BY <2>2, <2>3 DEF Passing
  <2> HIDE DEF start
  <2>5. start \in DOMAIN nodes /\ id \in Through(start)
    BY <2>4, NodesAre DEF Through
  <2>6. SubSeq(start, 1, 0) = <<>>
    OBVIOUS
  <2>7. start \in Starts
    BY <2>3, <2>5, <2>6 DEF Starts, Children, NoNode
  <2> QED BY <2>5, <2>7
<1> QED BY <1>1, <1>2, <1>3

\* What the first events say of an instantiation is what the log says of it.
LEMMA StartsSay ==
  ASSUME TreeOfLog, NEW inst, instantiations = AsPassed(inst, ConstantEvents)
  PROVE  HoldsOnTheLog(inst) <=>
           \A start \in Starts : \A id \in Through(start) : HoldsAt(prop_type, start, id)
<1>1. \A start \in Starts : \A id : HoldsAt(prop_type, start, id)
        = Holds(prop_type, Under(AsPassed(inst, ConstantEvents), log[id]), 1)
  BY StartsAre DEF HoldsAt
<1> QED BY <1>1, StartsAre DEF HoldsOnTheLog

\* The question, the log and the tree stay what they are.
LEMMA QuestionStays ==
  ASSUME UNCHANGED <<question, nodes>>
  PROVE  /\ QuestionRight => QuestionRight'
         /\ Bindings' = Bindings /\ Variables' = Variables /\ Starts' = Starts
         /\ \A pt : Through(pt)' = Through(pt)
         /\ \A inst : HoldsOnTheLog(inst)' = HoldsOnTheLog(inst)
         /\ MemoryRight(memo_map') => MemoryRight(memo_map)'
<1>1. /\ checker' = checker /\ prop_type' = prop_type /\ log' = log /\ holding' = holding
      /\ nodes' = nodes
  BY DEF question
<1>2. Variables' = Variables
  BY <1>1 DEF Variables
<1>3. Bindings' = Bindings
  BY <1>2 DEF Bindings
<1>4. Starts' = Starts /\ \A pt : Through(pt)' = Through(pt)
  BY <1>1 DEF Starts, Through
<1>5. \A inst : HoldsOnTheLog(inst)' = HoldsOnTheLog(inst)
  BY <1>1 DEF HoldsOnTheLog
<1>6. TreeOfLog' <=> TreeOfLog
  BY <1>1 DEF TreeOfLog
<1>7. QuestionRight => QuestionRight'
  BY <1>1, <1>3, <1>5, <1>6 DEF QuestionRight
<1>8. MemoryRight(memo_map') => MemoryRight(memo_map)'
  <2>1. Entries' = Entries
    BY <1>1 DEF Entries
  <2>2. \A entry : EntryRight(entry)' = EntryRight(entry)
    BY <1>1 DEF EntryRight, Through
  <2> QED BY <2>1, <2>2 DEF MemoryRight
<1> QED BY <1>2, <1>3, <1>4, <1>5, <1>7, <1>8

\* At first nothing is decided.
LEMMA InitRight ==
  ASSUME Init
  PROVE  Inv /\ Abstract!Init
<1>1. /\ "prefix_tree" \in DOMAIN PropTypes /\ prop_type \in PropTypes["prefix_tree"]
      /\ log \in Logs["prefix_tree"]
      /\ holding = {inst \in Bindings : HoldsOnTheLog(inst)}
      /\ untried \in Passes[Variables] /\ return_vec = {} /\ pc = "pool"
      /\ nodes = TreeOf([id \in DOMAIN log |-> EventsOf(log[id])])
      /\ memo_map = {} /\ start_nodes = {} /\ global_stat = VacuouslyTrue
  BY DEF Init, InitSearch
<1>2. QuestionRight
  BY <1>1, PropTypesAssumption, LogsAssumption DEF QuestionRight, TreeOfLog
<1>3. untried \in Seq(Bindings) /\ ToSet(untried) = Bindings /\ IsInjective(untried)
  BY <1>1, PassesAssumption DEF Variables, Bindings
<1>4. Concluded = {}
  BY <1>3 DEF Concluded
<1>5. MemoryRight(memo_map)
  BY <1>1 DEF MemoryRight
<1>6. LoopRight
  BY <1>1 DEF LoopRight, VacuouslyTrue, Stat, Stats
<1>7. Inv
  BY <1>1, <1>2, <1>3, <1>4, <1>5, <1>6 DEF Inv, PoolRight, FindingsRight
<1>8. Abstract!Init
  BY <1>1, <1>2, <1>4 DEF Abstract!Init, QuestionRight
<1> QED BY <1>7, <1>8

\* The abstract state of the search.
LEMMA AbstractStays ==
  ASSUME holding' = holding, Bindings' = Bindings, Concluded' = Concluded,
         return_vec' = return_vec, (pc' = "returned") <=> (pc = "returned")
  PROVE  UNCHANGED Abstract!vars
BY DEF Abstract!vars

\* The next instantiation is taken from the pool: nothing is decided by that.
LEMMA NextInstantiationRight ==
  ASSUME Inv, NextInstantiation
  PROVE  Inv' /\ UNCHANGED Abstract!vars
<1>1. /\ pc = "pool" /\ untried # <<>> /\ untried' = Tail(untried)
      /\ instantiations' = AsPassed(Head(untried), ConstantEvents) /\ pc' = "traces"
      /\ return_vec' = return_vec /\ start_nodes' = Starts /\ global_stat' = VacuouslyTrue
      /\ memo_map' = memo_map
      /\ UNCHANGED <<question, nodes>>
  BY DEF NextInstantiation, GetNextInstantiation, Starts
<1>2. /\ untried \in Seq(Bindings) /\ IsInjective(untried) /\ MemoryRight(memo_map)
      /\ return_vec = Concluded \cap holding
  BY DEF Inv, PoolRight, FindingsRight
<1> DEFINE inst == Head(untried)
<1>3. /\ untried' \in Seq(Bindings) /\ IsInjective(untried')
      /\ inst \in Bindings /\ inst \notin ToSet(untried')
      /\ ToSet(untried) = ToSet(untried') \cup {inst}
  BY <1>1, <1>2, TailIs
<1>4. Bindings' = Bindings /\ Variables' = Variables /\ Starts' = Starts
  BY <1>1, QuestionStays
<1> HIDE DEF inst
<1>5. Current' = inst /\ instantiations' = AsPassed(inst, ConstantEvents)
  <2>1. instantiations' = AsPassed(inst, ConstantEvents)
    BY <1>1 DEF inst
  <2> QED BY <1>3, <1>4, <2>1, PassedIs DEF Current
<1>6. Concluded = Bindings \ ToSet(untried) /\ Concluded' = Bindings \ (ToSet(untried') \cup {inst})
  BY <1>1, <1>4, <1>5 DEF Concluded, InProgress, Current
<1>7. Concluded' = Concluded
  BY <1>3, <1>6
<1>8. InProgressRight'
  <2>1. global_stat'.sat /\ Starts' \ start_nodes' = {}
    BY <1>1, <1>4 DEF VacuouslyTrue, Stat
  <2>2. Current' \in Bindings' \ ToSet(untried')
    BY <1>3, <1>4, <1>5
  <2> QED BY <1>5, <2>1, <2>2 DEF InProgressRight
<1>9. LoopRight'
  BY <1>1, <1>4, <1>8 DEF LoopRight, VacuouslyTrue, Stat, Stats
<1>10. FindingsRight'
  BY <1>1, <1>2, <1>7 DEF FindingsRight, question
<1>11. QuestionRight' /\ MemoryRight(memo_map)'
  BY <1>1, <1>2, QuestionStays DEF Inv
<1>12. UNCHANGED Abstract!vars
  BY <1>1, <1>4, <1>7, AbstractStays DEF question
<1> QED BY <1>3, <1>4, <1>9, <1>10, <1>11, <1>12 DEF Inv, PoolRight

\* A round of the inner loop: the answer for the traces of one first event counts for the
\* verdict on the instantiation, and leaves the memory right.
LEMMA CheckOnTraceRight ==
  ASSUME Inv, NEW start \in start_nodes, CheckOnTrace(start)
  PROVE  Inv' /\ UNCHANGED Abstract!vars
<1> DEFINE r == Check(prop_type, start, nodes[start].trace_ids, memo_map)
<1>1. /\ pc = "traces" /\ memo_map' = r.memo
      /\ global_stat' = Combine(global_stat, IF r.fails = {} THEN met ELSE unmet)
      /\ start_nodes' = IF global_stat'.sat THEN start_nodes \ {start} ELSE {}
      /\ UNCHANGED <<search, nodes>>
  BY DEF CheckOnTrace
<1>2. /\ QuestionRight /\ MemoryRight(memo_map) /\ PoolRight /\ FindingsRight
      /\ prop_type \in Language /\ TreeOfLog
      /\ start_nodes \subseteq Starts /\ global_stat \in Stats
      /\ InProgressRight
  BY <1>1 DEF Inv, QuestionRight, LoopRight
<1>3. /\ Current \in Bindings /\ Current \notin ToSet(untried)
      /\ instantiations = AsPassed(Current, ConstantEvents)
  BY <1>2 DEF InProgressRight
<1>4. start \in Starts /\ start \in DOMAIN nodes
  BY <1>2, StartsAre
<1>5. Checking
  BY <1>2, <1>3, PassedIs DEF Checking
<1>6. /\ r.fails = {id \in Through(start) : ~ HoldsAt(prop_type, start, id)}
      /\ MemoryRight(r.memo)
  <2>1. /\ r.holds = {id \in Through(start) : HoldsAt(prop_type, start, id)}
        /\ r.fails = Through(start) \ r.holds
        /\ MemoryRight(r.memo)
    BY <1>2, <1>4, <1>5, CheckAlwaysAnswers DEF HoldsAt, Through
  <2> QED BY <2>1
<1> HIDE DEF r
<1>7. global_stat.sat /\ \A other \in Starts \ start_nodes : \A id \in Through(other) :
                           HoldsAt(prop_type, other, id)
  <2>1. global_stat.sat
    <3>1. global_stat.sat \in BOOLEAN
      BY <1>2 DEF Stats
    <3> QED BY <1>2, <3>1 DEF InProgressRight
  <2> QED BY <1>2, <2>1 DEF InProgressRight
<1>8. /\ checker' = checker /\ prop_type' = prop_type /\ log' = log /\ holding' = holding
      /\ instantiations' = instantiations /\ untried' = untried /\ return_vec' = return_vec
      /\ pc' = pc /\ UNCHANGED <<question, nodes>>
  BY <1>1 DEF search, question
<1>9. /\ Bindings' = Bindings /\ Variables' = Variables /\ Starts' = Starts
      /\ \A pt : Through(pt)' = Through(pt)
      /\ \A inst : HoldsOnTheLog(inst)' = HoldsOnTheLog(inst)
      /\ QuestionRight'
  BY <1>2, <1>8, QuestionStays
<1>10. Current' = Current /\ \A pt, id : HoldsAt(prop_type, pt, id)' = HoldsAt(prop_type, pt, id)
  <2>1. Current' = Current
    BY <1>8, <1>9 DEF Current
  <2> QED BY <1>8, <2>1 DEF HoldsAt
<1>11. /\ global_stat' \in Stats
       /\ global_stat'.sat <=> r.fails = {}
  <2>1. /\ global_stat.sat \in BOOLEAN /\ global_stat.sup \in Nat /\ global_stat.pot \in Nat
    BY <1>2 DEF Stats
  <2>2. CASE r.fails = {}
    <3>1. global_stat' = [sat |-> global_stat.sat, sup |-> global_stat.sup + 1,
                          pot |-> global_stat.pot + 1]
      BY <1>1, <2>1, <2>2 DEF Combine, Stat, met
    <3> QED BY <1>7, <2>1, <2>2, <3>1 DEF Stats
  <2>3. CASE r.fails # {}
    <3>1. global_stat' = [sat |-> FALSE, sup |-> global_stat.sup + 0, pot |-> global_stat.pot + 1]
      BY <1>1, <2>1, <2>3 DEF Combine, Stat, unmet
    <3> QED BY <2>1, <2>3, <3>1 DEF Stats
  <2> QED BY <2>2, <2>3
<1>12. ASSUME r.fails = {}
       PROVE  start_nodes' \subseteq Starts /\ InProgressRight'
  <2>1. global_stat'.sat /\ start_nodes' = start_nodes \ {start}
    BY <1>1, <1>11, <1>12
  <2>2. \A id \in Through(start) : HoldsAt(prop_type, start, id)
    BY <1>6, <1>12
  <2>3. \A other \in Starts \ start_nodes' : \A id \in Through(other) :
          HoldsAt(prop_type, other, id)
    BY <1>7, <2>1, <2>2
  <2>4. InProgressRight'
    BY <1>3, <1>8, <1>9, <1>10, <2>1, <2>3 DEF InProgressRight
  <2> QED BY <1>2, <2>1, <2>4
<1>13. ASSUME r.fails # {}
       PROVE  start_nodes' \subseteq Starts /\ InProgressRight'
  <2>1. ~ global_stat'.sat /\ start_nodes' = {}
    BY <1>1, <1>11, <1>13
  <2>2. ~ HoldsOnTheLog(Current)
    BY <1>2, <1>3, <1>4, <1>6, <1>13, StartsSay
  <2>3. ~ HoldsOnTheLog(Current)'
    BY <1>9, <1>10, <2>2
  <2>4. InProgressRight'
    BY <1>3, <1>8, <1>9, <1>10, <2>1, <2>3 DEF InProgressRight
  <2> QED BY <2>1, <2>4
<1>14. start_nodes' \subseteq Starts /\ InProgressRight'
  BY <1>12, <1>13
<1>15. LoopRight'
  BY <1>1, <1>8, <1>9, <1>11, <1>14 DEF LoopRight
<1>16. PoolRight'
  BY <1>2, <1>8, <1>9 DEF PoolRight
<1>17. Concluded' = Concluded
  BY <1>8, <1>9, <1>10 DEF Concluded, InProgress, Current
<1>18. FindingsRight'
  BY <1>2, <1>8, <1>17 DEF FindingsRight
<1>19. MemoryRight(memo_map)'
  BY <1>1, <1>6, <1>8, QuestionStays
<1>20. UNCHANGED Abstract!vars
  BY <1>8, <1>9, <1>17, AbstractStays
<1> QED BY <1>9, <1>15, <1>16, <1>18, <1>19, <1>20 DEF Inv

\* The loop is left: the instantiation is found exactly when it holds on the whole log.
LEMMA ConcludeRight ==
  ASSUME Inv, Conclude
  PROVE  Inv' /\ Abstract!Next
<1>1. /\ start_nodes = {} /\ pc = "traces" /\ pc' = "pool"
      /\ return_vec' = IF global_stat.sat THEN return_vec \cup {Current} ELSE return_vec
      /\ UNCHANGED <<question, nodes>>
      /\ checker' = checker /\ prop_type' = prop_type /\ log' = log /\ holding' = holding
      /\ instantiations' = instantiations /\ untried' = untried
      /\ nodes' = nodes /\ memo_map' = memo_map /\ start_nodes' = start_nodes
      /\ global_stat' = global_stat
  BY DEF Conclude, KeepIf, Current, question
<1>2. /\ QuestionRight /\ MemoryRight(memo_map) /\ PoolRight
      /\ return_vec = Concluded \cap holding
      /\ TreeOfLog /\ holding = {inst \in Bindings : HoldsOnTheLog(inst)}
      /\ global_stat \in Stats
      /\ InProgressRight
  BY <1>1 DEF Inv, QuestionRight, LoopRight, FindingsRight
<1>3. /\ Current \in Bindings /\ Current \notin ToSet(untried)
      /\ instantiations = AsPassed(Current, ConstantEvents)
  BY <1>2 DEF InProgressRight
<1>4. /\ Bindings' = Bindings /\ Variables' = Variables /\ Starts' = Starts
      /\ QuestionRight' /\ MemoryRight(memo_map)'
  BY <1>1, <1>2, QuestionStays
<1>5. global_stat.sat <=> Current \in holding
  <2>1. global_stat.sat \in BOOLEAN
    BY <1>2 DEF Stats
  <2>2. CASE global_stat.sat
    <3>1. \A start \in Starts : \A id \in Through(start) : HoldsAt(prop_type, start, id)
      BY <1>1, <1>2, <2>2 DEF InProgressRight
    <3>2. HoldsOnTheLog(Current)
      BY <1>2, <1>3, <3>1, StartsSay
    <3> QED BY <1>2, <1>3, <2>2, <3>2
  <2>3. CASE ~ global_stat.sat
    BY <1>2, <2>3 DEF InProgressRight
  <2> QED BY <2>1, <2>2, <2>3
<1>6. /\ Concluded = Bindings \ (ToSet(untried) \cup {Current})
      /\ Concluded' = Bindings \ ToSet(untried)
  BY <1>1, <1>4 DEF Concluded, InProgress, Current
<1>7. Current \notin Concluded /\ Concluded' = Concluded \cup {Current}
  BY <1>3, <1>6
<1>8. return_vec' = IF Current \in holding THEN return_vec \cup {Current} ELSE return_vec
  BY <1>1, <1>5
<1>9. FindingsRight'
  BY <1>1, <1>2, <1>7, <1>8 DEF FindingsRight
<1>10. LoopRight'
  BY <1>1, <1>2, <1>4 DEF LoopRight, Starts, Children
<1>11. PoolRight'
  BY <1>1, <1>2, <1>4 DEF PoolRight
<1>12. Bindings' \ Concluded' = (Bindings \ Concluded) \ {Current} /\ Current \in Bindings \ Concluded
  BY <1>3, <1>4, <1>7
<1>13. Abstract!Next
  <2>1. CASE Current \in holding
    <3>1. Abstract!Find
      BY <1>1, <1>8, <1>12, <2>1 DEF Abstract!Find
    <3> QED BY <3>1 DEF Abstract!Next
  <2>2. CASE Current \notin holding
    <3>1. Abstract!Drop
      BY <1>1, <1>8, <1>12, <2>2 DEF Abstract!Drop
    <3> QED BY <3>1 DEF Abstract!Next
  <2> QED BY <2>1, <2>2
<1> QED BY <1>4, <1>9, <1>10, <1>11, <1>13 DEF Inv

\* The pool is empty: everything is decided, and the function returns.
LEMMA NoMoreInstantiationsRight ==
  ASSUME Inv, NoMoreInstantiations
  PROVE  Inv' /\ Abstract!Next
<1>1. /\ pc = "pool" /\ untried = <<>> /\ pc' = "returned"
      /\ UNCHANGED <<question, nodes>>
      /\ holding' = holding /\ instantiations' = instantiations /\ untried' = untried
      /\ return_vec' = return_vec /\ nodes' = nodes /\ memo_map' = memo_map
      /\ start_nodes' = start_nodes /\ global_stat' = global_stat
  BY DEF NoMoreInstantiations, GetNull, question
<1>2. /\ QuestionRight /\ MemoryRight(memo_map) /\ PoolRight
      /\ return_vec = Concluded \cap holding
      /\ start_nodes \subseteq Starts /\ global_stat \in Stats
  BY DEF Inv, LoopRight, FindingsRight
<1>3. /\ Bindings' = Bindings /\ Variables' = Variables /\ Starts' = Starts
      /\ QuestionRight' /\ MemoryRight(memo_map)'
  BY <1>1, <1>2, QuestionStays
<1>4. ToSet(untried) = {}
  BY <1>1 DEF ToSet
<1>5. Concluded = Bindings /\ Concluded' = Bindings
  BY <1>1, <1>3, <1>4 DEF Concluded, InProgress
<1>6. FindingsRight'
  BY <1>1, <1>2, <1>5 DEF FindingsRight
<1>7. LoopRight' /\ PoolRight'
  BY <1>1, <1>2, <1>3 DEF LoopRight, PoolRight
<1>8. Abstract!Return
  BY <1>1, <1>3, <1>5 DEF Abstract!Return
<1> QED BY <1>3, <1>6, <1>7, <1>8 DEF Inv, Abstract!Next

\* A step that changes nothing.
LEMMA StutterRight ==
  ASSUME Inv, UNCHANGED vars
  PROVE  Inv' /\ UNCHANGED Abstract!vars
<1>1. /\ checker' = checker /\ prop_type' = prop_type /\ log' = log /\ holding' = holding
      /\ instantiations' = instantiations /\ untried' = untried /\ return_vec' = return_vec
      /\ pc' = pc /\ nodes' = nodes /\ memo_map' = memo_map /\ start_nodes' = start_nodes
      /\ global_stat' = global_stat /\ UNCHANGED <<question, nodes>>
  BY DEF vars, search, question
<1>2. /\ Bindings' = Bindings /\ Variables' = Variables /\ Starts' = Starts
      /\ \A pt : Through(pt)' = Through(pt)
      /\ \A inst : HoldsOnTheLog(inst)' = HoldsOnTheLog(inst)
      /\ QuestionRight' /\ MemoryRight(memo_map)'
  BY <1>1, QuestionStays DEF Inv
<1>3. Current' = Current /\ \A pt, id : HoldsAt(prop_type, pt, id)' = HoldsAt(prop_type, pt, id)
  <2>1. Current' = Current
    BY <1>1, <1>2 DEF Current
  <2> QED BY <1>1, <2>1 DEF HoldsAt
<1>4. Concluded' = Concluded
  BY <1>1, <1>2, <1>3 DEF Concluded, InProgress, Current
<1>5. InProgressRight => InProgressRight'
  BY <1>1, <1>2, <1>3 DEF InProgressRight
<1>6. LoopRight' /\ PoolRight' /\ FindingsRight'
  BY <1>1, <1>2, <1>4, <1>5 DEF Inv, LoopRight, PoolRight, FindingsRight
<1>7. UNCHANGED Abstract!vars
  BY <1>1, <1>2, <1>4, AbstractStays
<1> QED BY <1>2, <1>6, <1>7 DEF Inv

-----------------------------------------------------------------------------
\* Every step keeps the invariant, and decides an instantiation, returns, or is not seen.
LEMMA StepRight ==
  ASSUME Inv, [Next]_vars
  PROVE  Inv' /\ [Abstract!Next]_(Abstract!vars)
<1>1. CASE NextInstantiation
  BY <1>1, NextInstantiationRight
<1>2. ASSUME NEW start \in start_nodes, CheckOnTrace(start) PROVE Inv' /\ UNCHANGED Abstract!vars
  BY <1>2, CheckOnTraceRight
<1>3. CASE Conclude
  BY <1>3, ConcludeRight
<1>4. CASE NoMoreInstantiations
  BY <1>4, NoMoreInstantiationsRight
<1>5. CASE UNCHANGED vars
  BY <1>5, StutterRight
<1> QED BY <1>1, <1>2, <1>3, <1>4, <1>5 DEF Next

LEMMA InvAlways == Spec => []Inv
<1>1. Init => Inv
  BY InitRight
<1>2. Inv /\ [Next]_vars => Inv'
  BY StepRight
<1> QED BY <1>1, <1>2, PTL DEF Spec

\* The search keeps its types; a verdict is remembered only of a trace that passes through
\* the node it is remembered for.
THEOREM TypesKept == Spec => []TypeOK
<1>1. Inv => TypeOK
  <2> SUFFICES ASSUME Inv PROVE TypeOK
    OBVIOUS
  <2>1. /\ untried \in Seq(Bindings) /\ pc \in {"pool", "traces", "returned"}
        /\ start_nodes \subseteq Starts /\ global_stat \in Stats
        /\ memo_map \subseteq Entries /\ \A entry \in memo_map : EntryRight(entry)
    BY DEF Inv, PoolRight, LoopRight, MemoryRight
  <2>2. ToSet(untried) \subseteq Bindings
    BY <2>1 DEF ToSet
  <2> QED BY <2>1, <2>2 DEF TypeOK, SearchTypeOK, Starts, EntryRight, Through
<1> QED BY <1>1, InvAlways, PTL

\* What the prefix tree checker remembers is the LTL meaning of the subformula under the
\* bindings it is remembered for, at the event and on the trace it is remembered for.
THEOREM MemoStaysRight == Spec => []MemoIsRight
<1>1. Inv => MemoIsRight
  BY DEF Inv, MemoryRight, EntryRight, MemoIsRight
<1> QED BY <1>1, InvAlways, PTL

\* valid_instants_on_traces finds what the whole log satisfies, and drops the rest.
THEOREM FindingsAreRight == Spec => []FindingsHoldOnTheLog
<1>1. Inv => FindingsHoldOnTheLog
  BY DEF Inv, FindingsRight, FindingsHoldOnTheLog
<1> QED BY <1>1, InvAlways, PTL

\* valid_instants_on_traces of the prefix tree checker is the search its caller expects:
\* each of its steps decides one instantiation by what the log says of it, returns when
\* all are decided, or changes nothing of that.
THEOREM SearchImplemented == Spec => ImplementsSearch
<1>1. Init => Abstract!Init
  BY InitRight
<1>2. Inv /\ [Next]_vars => [Abstract!Next]_(Abstract!vars)
  BY StepRight
<1> QED BY <1>1, <1>2, InvAlways, PTL DEF Spec, ImplementsSearch, Abstract!Spec
=============================================================================
