------------------------------ MODULE MapChecker ------------------------------
(***************************************************************************)
(* map_trace_checker and its valid_instants_on_traces: a property type is  *)
(* checked on a trace held as a map from events to their positions, by     *)
(* asking for the first or last occurrence of its subformulas in an        *)
(* interval, and what was found is remembered from one instantiation to    *)
(* the next.                                                               *)
(*                                                                         *)
(* A checker c is one record.  The searches are a recursion that fills its *)
(* memory on the way, so here they return it with their answer.  Positions *)
(* count from 0 as in the code, and -1 stands for no occurrence.           *)
(***************************************************************************)
EXTENDS MapParser, MemoizingChecker

VARIABLES
  all_checkers,   \* one for each different trace
  rounds,         \* how many traces the inner loop is through with
  is_satisfied    \* of global_stat

vars == <<search, all_checkers, rounds, is_satisfied>>

-----------------------------------------------------------------------------
Never == -1

Interval(start, end) == [start |-> start, end |-> end]

TerminalPos(trace_map) == trace_map[EndOfTrace][1]

\* From a position to the last event.
Rest(c, start) == Interval(start, c.terminal_pos - 1)

Later(i, start)  == Interval(start, i.end)
Earlier(i, end)  == Interval(i.start, end)
Shifted(i)       == Interval(i.start + 1, i.end + 1)

Positions(f, c) == PositionsIn(c.trace_map, c.instantiation_map[f.name])

\* setup_key and setup_key_ap.
Key(f, i, c) ==
  [formula |-> f, intvl |-> i,
   relevant_instants |-> Restrict(c.instantiation_map, ApsOf(f) \cap DOMAIN c.instantiation_map)]

\* use_memo is off below a negated operand, whose formula is destroyed after use;
\* atomic propositions are remembered all the same.
Remembers(f, c) == c.use_memo \/ f.op = "ap"

\* What a search found, and the interval it remembers it under.
Found(i, at, c) == [intvl |-> i, at |-> at, c |-> c]

\* return_and_add_first and return_and_add_last: an entry that is there stays.
AddFirst(f, r) ==
  IF Remembers(f, r.c)
  THEN [r EXCEPT !.c.first_occ_map = @ @@ (Key(f, r.intvl, r.c) :> r.at)] ELSE r

AddLast(f, r) ==
  IF Remembers(f, r.c)
  THEN [r EXCEPT !.c.last_occ_map = @ @@ (Key(f, r.intvl, r.c) :> r.at)] ELSE r

\* check, find_first_occurrence and find_last_occurrence call each other: one recursion.
RECURSIVE Ask(_, _, _, _)
Check(f, i, c)     == Ask("check", f, i, c)
FindFirst(f, i, c) == Ask("first", f, i, c)
FindLast(f, i, c)  == Ask("last", f, i, c)

\* Spot's negative_normal_form, by recursion over the formula.
RECURSIVE NegativeNormalForm(_, _)
NegativeNormalForm(f, negated) ==
  NormalForm(f, [p \in Operands(f) |-> [neg \in BOOLEAN |-> NegativeNormalForm(p, neg)]],
             negated)

\* The first or last place where f does not hold: of its negative normal form.
Negated(f)   == NegativeNormalForm(f, TRUE)
WithoutMemo(c) == [c EXCEPT !.use_memo = FALSE]

\* A variant that does not turn the memory on again.
FirstNotLeavesMemoOff(f, i, c) == FindFirst(Negated(f), i, WithoutMemo(c))

FirstNot(f, i, c) == [FindFirst(Negated(f), i, WithoutMemo(c)) EXCEPT !.c.use_memo = c.use_memo]
LastNot(f, i, c)  == [FindLast(Negated(f), i, WithoutMemo(c)) EXCEPT !.c.use_memo = c.use_memo]

\* The same search on another interval.
FirstIn(i, f, c) == [FindFirst(f, i, c) EXCEPT !.intvl = i]
LastIn(i, f, c)  == [FindLast(f, i, c) EXCEPT !.intvl = i]

-----------------------------------------------------------------------------
(***************************************************************************)
(* check: does the formula hold at the start of the interval?              *)
(***************************************************************************)
Verdict(sat, c) == [sat |-> sat, c |-> c]

CompareCheck(f, i, c) ==
  LET p == Check(f.first, i, c)
      q == Check(f.second, i, p.c)
  IN Verdict((p.sat # q.sat) <=> (f.op = "Xor"), q.c)

ImpliesCheck(f, i, c) ==
  LET p == Check(f.first, i, c)
  IN IF p.sat THEN Check(f.second, i, p.c) ELSE Verdict(TRUE, p.c)

\* and_check and or_check under the default settings: up to the first operand
\* that decides.
MultopCheck(f, i, c) ==
  LET neutral      == f.op = "And"
      Step(v, kid) == IF v.sat = neutral THEN Check(kid, i, v.c) ELSE v
  IN FoldLeft(Step, Verdict(neutral, c), f.kids)

NextCheck(f, i, c) ==
  Check(f.kid, IF i.start \in {c.terminal_pos - 1, c.terminal_pos}
               THEN Interval(c.terminal_pos, c.terminal_pos) ELSE Later(i, i.start + 1), c)

FinallyCheck(f, i, c) ==
  LET r == FindFirst(f.kid, Rest(c, i.start), c) IN Verdict(r.at # Never, r.c)

GloballyCheck(f, i, c) ==
  LET r == FirstNot(f.kid, Rest(c, i.start), c) IN Verdict(r.at = Never, r.c)

\* q must occur, and !p not before it.
UntilCheck(f, i, c) ==
  LET q    == FindFirst(f.second, Rest(c, i.start), c)
      notp == FirstNot(f.first, Rest(c, i.start), q.c)
  IN IF q.at = Never THEN Verdict(FALSE, q.c)
     ELSE Verdict(notp.at = Never \/ notp.at >= q.at, notp.c)

WeakUntilCheck(f, i, c) ==
  LET q    == FindFirst(f.second, Rest(c, i.start), c)
      notp == FirstNot(f.first, Rest(c, i.start), q.c)
  IN Verdict(notp.at = Never \/ (q.at # Never /\ notp.at >= q.at), notp.c)

\* A variant that lets !q come with the first p.
ReleaseTooSoon(f, i, c) ==
  LET notq == FirstNot(f.second, Rest(c, i.start), c)
      p    == FindFirst(f.first, Rest(c, i.start), notq.c)
  IN Verdict(notq.at = Never \/ (p.at # Never /\ notq.at >= p.at), p.c)

\* !q must not occur up to and including the first p.
ReleaseCheck(f, i, c) ==
  LET notq == FirstNot(f.second, Rest(c, i.start), c)
      p    == FindFirst(f.first, Rest(c, i.start), notq.c)
  IN Verdict(notq.at = Never \/ (p.at # Never /\ notq.at > p.at), p.c)

StrongReleaseCheck(f, i, c) ==
  LET notq == FirstNot(f.second, Rest(c, i.start), c)
      p    == FindFirst(f.first, Rest(c, i.start), notq.c)
  IN Verdict(p.at # Never /\ (notq.at = Never \/ notq.at > p.at), p.c)

Evaluate(f, i, c) ==
  CASE f.op \in {"true", "false"}  -> Verdict(f.op = "true", c)
    [] f.op = "ap"      -> Verdict(i.start \in ToSet(Positions(f, c)), c)
    [] f.op = "Not"     -> [Check(f.kid, i, c) EXCEPT !.sat = ~ @]
    [] f.op = "X"       -> NextCheck(f, i, c)
    [] f.op = "F"       -> FinallyCheck(f, i, c)
    [] f.op = "G"       -> GloballyCheck(f, i, c)
    [] f.op = "U"       -> UntilCheck(f, i, c)
    [] f.op = "W"       -> WeakUntilCheck(f, i, c)
    [] f.op = "R"       -> ReleaseCheck(f, i, c)
    [] f.op = "M"       -> StrongReleaseCheck(f, i, c)
    [] f.op = "Implies" -> ImpliesCheck(f, i, c)
    [] f.op \in {"Xor", "Equiv"} -> CompareCheck(f, i, c)
    [] f.op \in {"And", "Or"}    -> MultopCheck(f, i, c)

-----------------------------------------------------------------------------
(***************************************************************************)
(* find_first_occurrence.                                                  *)
(***************************************************************************)
\* The binary search: intervals it is asked about end before they start only behind
\* the last event.
FirstAp(f, i, c) ==
  LET within == {at \in ToSet(Positions(f, c)) : i.start <= at /\ at <= i.end}
  IN Found(i, IF within = {} THEN Never ELSE Min(within), c)

\* The earlier of two occurrences, if there is one.
Sooner(p, q) == IF p = Never \/ (q # Never /\ q < p) THEN q ELSE p

FirstOr(f, i, c) ==
  LET Step(r, kid) == LET s == FindFirst(kid, i, r.c) IN Found(i, Sooner(r.at, s.at), s.c)
  IN FoldLeft(Step, Found(i, Never, c), f.kids)

\* The first occurrences of the operands, up to one that never occurs.
RECURSIVE AllFirst(_, _, _)
AllFirst(kids, i, r) ==
  LET s == FindFirst(Head(kids), i, r.c)
  IN IF kids = <<>> THEN r
     ELSE IF s.at = Never THEN Found(i, Never, s.c)
     ELSE AllFirst(Tail(kids), i, Found(i, Max({r.at, s.at}), s.c))

\* The latest of the operands' first occurrences, if all hold there; else further on.
FirstAnd(f, i, c) ==
  LET latest == AllFirst(f.kids, i, Found(i, Never, c))
      there  == Later(i, latest.at)
      all    == MultopCheck(f, there, latest.c)
  IN IF latest.at = Never THEN latest
     ELSE IF all.sat THEN Found(there, latest.at, all.c)
     ELSE IF there.start = i.end THEN Found(there, Never, all.c)
     ELSE FirstIn(Later(i, latest.at + 1), f, all.c)

FirstNotOp(f, i, c) ==
  LET p == FindFirst(f.kid, i, c)
  IN IF p.at = Never \/ p.at > i.start THEN Found(i, i.start, p.c)
     ELSE IF i.start = i.end THEN Found(i, Never, p.c)
     ELSE FirstIn(Later(i, i.start + 1), f, p.c)

\* Both X searches remember the shifted interval.
FirstNext(f, i, c) ==
  LET p == FindFirst(f.kid, Shifted(i), c)
  IN Found(Shifted(i), IF p.at = Never THEN Never ELSE p.at - 1, p.c)

\* A variant that steps over the end of the interval.
AfterLastTooFar(i, bad) ==
  Found(i, IF bad.at = Never THEN i.start ELSE IF bad.at > i.end THEN Never ELSE bad.at + 1,
        bad.c)

\* The place after the last one that forbids it, if in the interval.
AfterLast(i, bad) ==
  Found(i, IF bad.at = Never THEN i.start ELSE IF bad.at >= i.end THEN Never ELSE bad.at + 1,
        bad.c)

FirstGlobally(f, i, c) == AfterLast(i, LastNot(f.kid, Rest(c, i.start), c))

FirstFinally(f, i, c) ==
  LET p == FindFirst(f.kid, Rest(c, i.start), c)
  IN Found(Rest(c, i.start), IF p.at = Never THEN Never ELSE i.start, p.c)

FirstXor(f, i, c) ==
  LET p == FindFirst(f.first, i, c)
      q == FindFirst(f.second, i, p.c)
  IN IF p.at # q.at \/ p.at = Never THEN Found(i, Sooner(p.at, q.at), q.c)
     ELSE IF q.at = i.end THEN Found(i, Never, q.c)
     ELSE FirstIn(Later(i, q.at + 1), f, q.c)

FirstImplies(f, i, c) ==
  LET notp == FirstNot(f.first, i, c)
      q    == FindFirst(f.second, i, notp.c)
  IN Found(i, Sooner(notp.at, q.at), q.c)

FirstEquiv(f, i, c) ==
  LET p == FindFirst(f.first, i, c)
      q == FindFirst(f.second, i, p.c)
  IN IF i.start \notin {p.at, q.at} THEN Found(i, i.start, q.c)
     ELSE IF p.at = q.at THEN Found(i, p.at, q.c)
     ELSE IF i.start >= i.end THEN Found(i, Never, q.c)
     ELSE FirstIn(Later(i, i.start + 1), f, q.c)

\* After the last !p before the first q, which may lie behind the interval; W, if
\* there is no q, after the last !p at all.
FirstUntil(f, i, c) ==
  LET q    == FindFirst(f.second, Rest(c, i.start), c)
      upto == IF q.at = Never THEN Rest(c, i.start) ELSE Earlier(i, q.at - 1)
  IN IF q.at = Never /\ f.op = "U" THEN Found(i, Never, q.c)
     ELSE AfterLast(i, LastNot(f.first, upto, q.c))

\* After the last !q up to and including the first p -- unless it comes with that p.
FirstRelease(f, i, c) ==
  LET p    == FindFirst(f.first, Rest(c, i.start), c)
      notq == LastNot(f.second, Earlier(i, p.at), p.c)
  IN CASE p.at = Never /\ f.op = "M" -> Found(i, Never, p.c)
       [] p.at = Never /\ f.op = "R" -> AfterLast(i, LastNot(f.second, Rest(c, i.start), p.c))
       [] p.at # Never /\ notq.at = p.at ->
            IF i.end <= p.at THEN Found(i, Never, notq.c)
            ELSE FirstIn(Later(i, p.at + 1), f, notq.c)
       [] OTHER -> Found(i, IF notq.at = Never THEN i.start ELSE notq.at + 1, notq.c)

FirstOf(f, i, c) ==
  CASE f.op = "ap"      -> FirstAp(f, i, c)
    [] f.op = "Or"      -> FirstOr(f, i, c)
    [] f.op = "And"     -> FirstAnd(f, i, c)
    [] f.op = "Not"     -> FirstNotOp(f, i, c)
    [] f.op = "X"       -> FirstNext(f, i, c)
    [] f.op = "G"       -> FirstGlobally(f, i, c)
    [] f.op = "F"       -> FirstFinally(f, i, c)
    [] f.op = "Xor"     -> FirstXor(f, i, c)
    [] f.op = "Implies" -> FirstImplies(f, i, c)
    [] f.op = "Equiv"   -> FirstEquiv(f, i, c)
    [] f.op \in {"U", "W"} -> FirstUntil(f, i, c)
    [] f.op \in {"R", "M"} -> FirstRelease(f, i, c)

FirstOccurrence(f, i, c) ==
  LET key == Key(f, i, c)
  IN CASE f.op = "true"  -> Found(i, i.start, c)
       [] f.op = "false" -> Found(i, Never, c)
       [] OTHER -> IF Remembers(f, c) /\ key \in DOMAIN c.first_occ_map
                   THEN Found(i, c.first_occ_map[key], c)
                   ELSE AddFirst(f, FirstOf(f, i, c))

-----------------------------------------------------------------------------
(***************************************************************************)
(* find_last_occurrence.  It is asked for negated operands and below them  *)
(* only: use_memo is off, and Xor, Equiv and Implies do not get here.      *)
(***************************************************************************)
\* The binary search, which on an interval that ends before it starts may find the
\* event at its end.  It does not remember what it sees one place before its probe.
RECURSIVE Probe(_, _, _, _)
Probe(seq, i, left, right) ==
  LET newpos == (left + right) \div 2
      here   == seq[newpos + 1]
      before == seq[newpos]
      Answer(at, kept) == [at |-> IF at >= i.start THEN at ELSE Never, kept |-> kept]
  IN CASE here > i.end /\ newpos = 0 -> Answer(Never, TRUE)
       [] here > i.end /\ newpos # 0 -> IF before <= i.end THEN Answer(before, before < i.start)
                                        ELSE Probe(seq, i, left, newpos - 1)
       [] here = i.end -> [at |-> here, kept |-> TRUE]
       [] here < i.end -> IF newpos = Len(seq) - 1 THEN Answer(here, TRUE)
                          ELSE Probe(seq, i, newpos + 1, right)

LastAp(f, i, c) ==
  LET seq == Positions(f, c)
      r   == IF seq = <<>> THEN [at |-> Never, kept |-> TRUE]
             ELSE Probe(seq, i, 0, Len(seq) - 1)
  IN IF r.kept THEN AddLast(f, Found(i, r.at, c)) ELSE Found(i, r.at, c)

LastOr(f, i, c) ==
  LET Step(r, kid) == LET s == FindLast(kid, i, r.c) IN Found(i, Max({r.at, s.at}), s.c)
  IN FoldLeft(Step, Found(i, Never, c), f.kids)

RECURSIVE AllLast(_, _, _)
AllLast(kids, i, r) ==
  LET s == FindLast(Head(kids), i, r.c)
  IN IF kids = <<>> THEN r
     ELSE IF s.at = Never THEN Found(i, Never, s.c)
     ELSE AllLast(Tail(kids), i, Found(i, IF r.at = Never THEN s.at ELSE Min({r.at, s.at}), s.c))

LastAnd(f, i, c) ==
  LET earliest == AllLast(f.kids, i, Found(i, Never, c))
      all      == MultopCheck(f, Later(i, earliest.at), earliest.c)
  IN IF earliest.at = Never THEN earliest
     ELSE IF all.sat THEN Found(i, earliest.at, all.c)
     ELSE IF i.start < earliest.at THEN LastIn(Earlier(i, earliest.at - 1), f, all.c)
     ELSE Found(i, Never, all.c)

LastNotOp(f, i, c) ==
  LET p == FindLast(f.kid, i, c)
  IN IF p.at # i.end THEN Found(i, i.end, p.c)
     ELSE IF i.start = i.end THEN Found(i, Never, p.c)
     ELSE LastIn(Earlier(i, i.end - 1), f, p.c)

LastNext(f, i, c) ==
  LET p == FindLast(f.kid, Shifted(i), c)
  IN Found(Shifted(i), IF p.at = Never THEN Never ELSE p.at - 1, p.c)

LastGlobally(f, i, c) ==
  LET notp == LastNot(f.kid, Rest(c, i.start), c)
  IN Found(i, IF notp.at >= i.end THEN Never ELSE i.end, notp.c)

LastFinally(f, i, c) ==
  LET p == FindLast(f.kid, Rest(c, i.start), c)
  IN Found(i, IF p.at > i.end THEN i.end ELSE p.at, p.c)

\* The last q, if it does not hold at the end of the interval.
LastUntil(f, i, c) ==
  LET q       == FindFirst(f.second, Rest(c, i.end), c)
      notp    == LastNot(f.first, Interval(i.end, q.at - 1), q.c)
      InHere(d) == [FindLast(f.second, i, d) EXCEPT !.intvl = i]
  IN IF i.end >= c.terminal_pos - 1 THEN InHere(c)
     ELSE IF q.at = Never THEN InHere(q.c)
     ELSE IF q.at = i.end THEN Found(i, i.end, q.c)
     ELSE IF notp.at = Never THEN Found(i, i.end, notp.c)
     ELSE InHere(notp.c)

\* Nothing forbids the end, or else the last q; without any q, the end unless !p is there.
LastWeakUntil(f, i, c) ==
  LET q      == FindFirst(f.second, Rest(c, i.end), c)
      upto   == IF q.at = Never THEN Rest(c, i.end) ELSE Interval(i.end, q.at - 1)
      notp   == LastNot(f.first, upto, q.c)
      InHere(d) ==
        LET lastq == FindLast(f.second, i, d)
            bad   == LastNot(f.first, i, lastq.c)
        IN IF lastq.at # Never THEN Found(i, lastq.at, lastq.c)
           ELSE Found(i, IF bad.at # i.end THEN i.end ELSE Never, bad.c)
  IN IF i.end >= c.terminal_pos - 1 THEN InHere(c)
     ELSE IF q.at = i.end THEN Found(i, i.end, q.c)
     ELSE IF notp.at = Never THEN Found(i, i.end, notp.c)
     ELSE InHere(notp.c)

\* The end of the interval, if !q does not occur from there to the next p (R: or at all);
\* else the last p at which q holds.  M looks for q at the start of the interval.
LastRelease(f, i, c) ==
  LET after == IF i.end = c.terminal_pos THEN Interval(i.end, i.end) ELSE Rest(c, i.end)
      p     == FindFirst(f.first, after, c)
      upto  == IF p.at = Never THEN after ELSE Interval(i.end, p.at)
      notq  == LastNot(f.second, upto, p.c)
      InHere(d) ==
        LET lastp == FindLast(f.first, i, d)
            q     == Check(f.second, Interval(IF f.op = "M" THEN i.start ELSE lastp.at, upto.end),
                           lastp.c)
        IN IF lastp.at = Never THEN Found(i, Never, lastp.c)
           ELSE IF q.sat THEN Found(i, lastp.at, q.c)
           ELSE IF i.start = lastp.at THEN Found(i, Never, q.c)
           ELSE LastIn(Earlier(i, lastp.at - 1), f, q.c)
  IN IF p.at = Never /\ f.op = "M" THEN InHere(p.c)
     ELSE IF notq.at = Never THEN Found(i, i.end, notq.c)
     ELSE InHere(notq.c)

LastOccurrence(f, i, c) ==
  LET key == Key(f, i, c)
  IN CASE f.op = "true"  -> Found(i, i.end, c)
       [] f.op = "false" -> Found(i, Never, c)
       [] f.op = "ap"    -> IF key \in DOMAIN c.last_occ_map THEN Found(i, c.last_occ_map[key], c)
                            ELSE LastAp(f, i, c)
       [] f.op = "Or"    -> LastOr(f, i, c)
       [] f.op = "And"   -> LastAnd(f, i, c)
       [] f.op = "Not"   -> LastNotOp(f, i, c)
       [] f.op = "X"     -> LastNext(f, i, c)
       [] f.op = "G"     -> LastGlobally(f, i, c)
       [] f.op = "F"     -> LastFinally(f, i, c)
       [] f.op = "U"     -> LastUntil(f, i, c)
       [] f.op = "W"     -> LastWeakUntil(f, i, c)
       [] f.op \in {"R", "M"} -> LastRelease(f, i, c)

Ask(what, f, i, c) == CASE what = "check" -> Evaluate(f, i, c)
                        [] what = "first" -> FirstOccurrence(f, i, c)
                        [] what = "last"  -> LastOccurrence(f, i, c)

-----------------------------------------------------------------------------
(***************************************************************************)
(* valid_instants_on_traces.                                               *)
(***************************************************************************)
\* What the parser makes of the log: traces with the same events are one.
MapsOf(traces) ==
  FoldLeft(MapAdd, NewMap, FlattenSeq([id \in DOMAIN traces |-> EventsOf(traces[id])])).map_trace_set

NewChecker(trace_map) ==
  [trace_map |-> trace_map, terminal_pos |-> TerminalPos(trace_map), use_memo |-> TRUE,
   first_occ_map |-> <<>>, last_occ_map |-> <<>>, instantiation_map |-> <<>>]

\* The set of traces is walked in the order of its maps, which is left open.
Init == /\ InitSearch("map")
        /\ all_checkers \in SetToSeqs({NewChecker(m) : m \in MapsOf(log)})
        /\ rounds = 0
        /\ is_satisfied = TRUE

NextInstantiation == /\ GetNextInstantiation
                     /\ rounds' = 0
                     /\ is_satisfied' = TRUE
                     /\ UNCHANGED all_checkers

\* One round of the inner loop: check_on_trace.
CheckOnTrace ==
  LET c == [all_checkers[rounds + 1] EXCEPT !.instantiation_map = instantiations, !.use_memo = TRUE]
      v == Check(prop_type, Rest(c, 0), c)
  IN /\ pc = "traces"
     /\ is_satisfied /\ rounds < Len(all_checkers)
     /\ all_checkers' = [all_checkers EXCEPT ![rounds + 1] = v.c]
     /\ is_satisfied' = v.sat
     /\ rounds' = rounds + 1
     /\ UNCHANGED search

Conclude == /\ ~ is_satisfied \/ rounds = Len(all_checkers)
            /\ KeepIf(is_satisfied)
            /\ UNCHANGED <<all_checkers, rounds, is_satisfied>>

NoMoreInstantiations == GetNull /\ UNCHANGED <<all_checkers, rounds, is_satisfied>>

Next == NextInstantiation \/ CheckOnTrace \/ Conclude \/ NoMoreInstantiations

-----------------------------------------------------------------------------
TypeOK ==
  /\ SearchTypeOK
  /\ \A k \in DOMAIN all_checkers :
       LET c == all_checkers[k] IN
       /\ c.use_memo
       /\ \A key \in DOMAIN c.first_occ_map : c.first_occ_map[key] \in Never .. c.terminal_pos
       /\ \A key \in DOMAIN c.last_occ_map : c.last_occ_map[key] \in Never .. c.terminal_pos
  /\ rounds \in 0 .. Len(all_checkers)
  /\ is_satisfied \in BOOLEAN

\* The trace a checker was made for.
TraceOf(c) == CHOOSE t \in ToSet(log) : MapsOf(<<t>>) = {c.trace_map}

\* Where a remembered subformula holds in a remembered interval.
Occurrences(key, c) ==
  {at \in key.intvl.start .. Min({key.intvl.end, c.terminal_pos}) :
     Holds(key.formula, Under(key.relevant_instants, TraceOf(c)), at + 1)}

\* What is remembered is right for every instantiation it may serve: it is the first
\* or last place of the interval where LTL has the subformula hold under the key's
\* bindings.  Not so for X, whose searches remember their answer for the shifted
\* interval they asked their operand about.
MemoIsRight ==
  \A k \in DOMAIN all_checkers :
    LET c == all_checkers[k] IN
    /\ \A key \in DOMAIN c.first_occ_map : key.formula.op # "X" =>
         c.first_occ_map[key] = LET at == Occurrences(key, c)
                                IN IF at = {} THEN Never ELSE Min(at)
    /\ \A key \in DOMAIN c.last_occ_map :
         c.last_occ_map[key] = LET at == Occurrences(key, c)
                               IN IF at = {} THEN Never ELSE Max(at)
=============================================================================
