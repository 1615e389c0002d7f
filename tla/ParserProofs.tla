----------------------------- MODULE ParserProofs -----------------------------
(***************************************************************************)
(* The parsers, for every set of propositions and every length of the log. *)
(* Each parser keeps the traces it has been handed and the events of the   *)
(* one it is building, in a form of its own; both are those of the lines   *)
(* read so far.                                                            *)
(***************************************************************************)
EXTENDS Parser, NatFacts

-----------------------------------------------------------------------------
(***************************************************************************)
(* The positions of lines, events and separators.                          *)
(***************************************************************************)

\* The function that Ascending is defined with.
IsUpto(upto, S, n) ==
  upto = [k \in 0 .. n |-> IF k = 0 THEN <<>>
                           ELSE IF k \in S THEN Append(upto[k - 1], k) ELSE upto[k - 1]]

\* There is one for every set and limit, and Ascending is its last value.
LEMMA AscendingDef ==
  ASSUME NEW S, NEW n \in Nat
  PROVE  \E upto : IsUpto(upto, S, n) /\ Ascending(S, n) = upto[n]
<1> DEFINE N == {m \in Nat : \E upto : IsUpto(upto, S, m)}
<1>1. 0 \in N
  <2> DEFINE p == [k \in 0 .. 0 |-> <<>>]
  <2>1. IsUpto(p, S, 0)
    BY DEF IsUpto
  <2> QED BY <2>1
<1>2. ASSUME NEW m \in Nat, m \in N PROVE m + 1 \in N
  <2>1. PICK p : IsUpto(p, S, m)
    BY <1>2
  <2> DEFINE Body(f, k) == IF k = 0 THEN <<>>
                           ELSE IF k \in S THEN Append(f[k - 1], k) ELSE f[k - 1]
             q == [k \in 0 .. m + 1 |-> IF k <= m THEN p[k] ELSE Body(p, k)]
  <2>2. \A k \in 0 .. m + 1 : q[k] = Body(q, k)
    <3> SUFFICES ASSUME NEW k \in 0 .. m + 1 PROVE q[k] = Body(q, k)
      OBVIOUS
    <3>1. k > 0 => q[k - 1] = p[k - 1]
      OBVIOUS
    <3>2. Body(q, k) = Body(p, k)
      BY <3>1
    <3>3. ASSUME k <= m PROVE p[k] = Body(p, k)
      <4>1. k \in 0 .. m
        BY <3>3
      <4> QED BY <2>1, <4>1 DEF IsUpto
    <3> QED BY <3>2, <3>3
  <2>3. q = [k \in 0 .. m + 1 |-> Body(q, k)]
    <3> HIDE DEF Body
    <3>1. q = [k \in 0 .. m + 1 |-> q[k]]
      OBVIOUS
    <3> HIDE DEF q
    <3> QED BY <3>1, <2>2
  <2> HIDE DEF q
  <2>4. IsUpto(q, S, m + 1)
    BY <2>3 DEF IsUpto
  <2> QED BY <2>4
<1>3. n \in N
  <2> HIDE DEF N
  <2> QED BY <1>1, <1>2, NatSetInduction
<1>4. PICK p : IsUpto(p, S, n)
  BY <1>3
<1> QED BY <1>4 DEF Ascending, IsUpto

\* Sets that agree up to m have the same numbers up to m, whatever the limit.
LEMMA UptoAgree ==
  ASSUME NEW S, NEW T, NEW p, NEW q, NEW m \in Nat, NEW n \in Nat, m <= n,
         IsUpto(p, S, m), IsUpto(q, T, n), \A k \in 1 .. m : k \in S <=> k \in T
  PROVE  p[m] = q[m]
<1> DEFINE N == {k \in Nat : k <= m => p[k] = q[k]}
<1>1. 0 \in N
  BY DEF IsUpto
<1>2. ASSUME NEW k \in Nat, k \in N PROVE k + 1 \in N
  <2> SUFFICES ASSUME k + 1 <= m PROVE p[k + 1] = q[k + 1]
    OBVIOUS
  <2>1. k + 1 \in 0 .. m /\ k + 1 \in 0 .. n /\ k + 1 # 0 /\ (k + 1) - 1 = k /\ k + 1 \in 1 .. m
    OBVIOUS
  <2>2. p[k] = q[k]
    BY <1>2, <2>1
  <2>3. p[k + 1] = IF k + 1 \in S THEN Append(p[k], k + 1) ELSE p[k]
    BY <2>1 DEF IsUpto
  <2>4. q[k + 1] = IF k + 1 \in T THEN Append(q[k], k + 1) ELSE q[k]
    BY <2>1 DEF IsUpto
  <2> QED BY <2>1, <2>2, <2>3, <2>4
<1>3. m \in N
  <2> HIDE DEF N
  <2> QED BY <1>1, <1>2, NatSetInduction
<1> QED BY <1>3

\* The numbers up to the next one; S may have gained or lost later ones.
LEMMA AscendingStep ==
  ASSUME NEW S, NEW T, NEW n \in Nat, \A k \in 1 .. n : k \in S <=> k \in T
  PROVE  /\ Ascending(S, 0) = <<>>
         /\ Ascending(T, n) = Ascending(S, n)
         /\ Ascending(T, n + 1) = IF n + 1 \in T THEN Append(Ascending(S, n), n + 1)
                                  ELSE Ascending(S, n)
<1>1. PICK p : IsUpto(p, S, n) /\ Ascending(S, n) = p[n]
  BY AscendingDef
<1>2. PICK q : IsUpto(q, T, n) /\ Ascending(T, n) = q[n]
  BY AscendingDef
<1>3. PICK r : IsUpto(r, T, n + 1) /\ Ascending(T, n + 1) = r[n + 1]
  BY AscendingDef
<1>4. PICK z : IsUpto(z, S, 0) /\ Ascending(S, 0) = z[0]
  BY AscendingDef
<1>5. z[0] = <<>>
  BY <1>4 DEF IsUpto
<1>6. p[n] = q[n]
  BY <1>1, <1>2, UptoAgree
<1>7. p[n] = r[n]
  BY <1>1, <1>3, UptoAgree
<1>8. n + 1 \in 0 .. n + 1 /\ n + 1 # 0 /\ (n + 1) - 1 = n
  OBVIOUS
<1>9. r[n + 1] = IF n + 1 \in T THEN Append(r[n], n + 1) ELSE r[n]
  BY <1>3, <1>8 DEF IsUpto
<1> QED BY <1>1, <1>2, <1>3, <1>4, <1>5, <1>6, <1>7, <1>9

\* They are the numbers of the set up to the limit, all of them and no other.
LEMMA AscendingType ==
  ASSUME NEW S, NEW n \in Nat
  PROVE  /\ Ascending(S, n) \in Seq(1 .. n)
         /\ ToSet(Ascending(S, n)) = S \cap (1 .. n)
<1> DEFINE N == {m \in Nat : /\ Ascending(S, m) \in Seq(1 .. m)
                             /\ ToSet(Ascending(S, m)) = S \cap (1 .. m)}
<1>1. 0 \in N
  <2>1. Ascending(S, 0) = <<>>
    BY AscendingStep
  <2>2. <<>> \in Seq(1 .. 0) /\ ToSet(<<>>) = {} /\ S \cap (1 .. 0) = {}
    BY DEF ToSet
  <2> QED BY <2>1, <2>2
<1>2. ASSUME NEW m \in Nat, m \in N PROVE m + 1 \in N
  <2> DEFINE a == Ascending(S, m)
             b == Ascending(S, m + 1)
  <2>1. a \in Seq(1 .. m) /\ {a[i] : i \in DOMAIN a} = S \cap (1 .. m)
    BY <1>2 DEF ToSet
  <2>2. b = IF m + 1 \in S THEN Append(a, m + 1) ELSE a
    BY AscendingStep
  <2> HIDE DEF a, b
  <2>3. a \in Seq(1 .. m + 1)
    BY <2>1
  <2>4. b \in Seq(1 .. m + 1)
    <3>1. m + 1 \in 1 .. m + 1
      OBVIOUS
    <3>2. Append(a, m + 1) \in Seq(1 .. m + 1)
      BY <2>3, <3>1
    <3> QED BY <2>2, <2>3, <3>2
  <2>5. {b[i] : i \in DOMAIN b} = S \cap (1 .. m + 1)
    <3>1. CASE m + 1 \in S
      <4>1. b = Append(a, m + 1) /\ DOMAIN b = 1 .. Len(a) + 1 /\ DOMAIN a = 1 .. Len(a)
        BY <2>2, <2>3, <3>1
      <4>2. b[Len(a) + 1] = m + 1 /\ \A i \in DOMAIN a : b[i] = a[i]
        BY <2>3, <4>1
      <4>3. {b[i] : i \in DOMAIN b} = {a[i] : i \in DOMAIN a} \cup {m + 1}
        BY <2>3, <4>1, <4>2
      <4>4. S \cap (1 .. m + 1) = (S \cap (1 .. m)) \cup {m + 1}
        BY <3>1
      <4> QED BY <2>1, <4>3, <4>4
    <3>2. CASE m + 1 \notin S
      <4>1. S \cap (1 .. m + 1) = S \cap (1 .. m)
        BY <3>2
      <4> QED BY <2>1, <2>2, <3>2, <4>1
    <3> QED BY <3>1, <3>2
  <2> QED BY <2>4, <2>5 DEF a, b, ToSet
<1>3. n \in N
  <2> HIDE DEF N
  <2> QED BY <1>1, <1>2, NatSetInduction
<1> QED BY <1>3

-----------------------------------------------------------------------------
(***************************************************************************)
(* What the three parsers have built from traces and from the events of    *)
(* the next one, and that add_event adds to.                               *)
(***************************************************************************)
Names       == Matched \cup {EventSep}
PlainEvents == {Event(props) : props \in SUBSET Names}
Closed(es)  == Append(es, TerminalEvent)
AnyTrace    == {Closed(es) : es \in Seq(PlainEvents)}

LinearIs(s, traces, rest) ==
  s = [temp_trace |-> rest, vector_trace_set |-> ToBag(traces)]

\* One more element in a bag.
LEMMA BagOfAppend ==
  ASSUME NEW T, NEW s \in Seq(T), NEW x \in T
  PROVE  ToBag(Append(s, x)) = ToBag(s) (+) SetToBag({x})
<1> DEFINE t == Append(s, x)
           At(r, y) == {i \in DOMAIN r : r[i] = y}
<1>1. /\ DOMAIN s = 1 .. Len(s) /\ DOMAIN t = 1 .. Len(s) + 1 /\ Len(s) \in Nat
      /\ t[Len(s) + 1] = x /\ \A i \in 1 .. Len(s) : t[i] = s[i]
  OBVIOUS
<1> HIDE DEF t
<1>2. {t[i] : i \in DOMAIN t} = {s[i] : i \in DOMAIN s} \cup {x}
  BY <1>1
<1>3. ASSUME NEW y PROVE At(t, y) = IF y = x THEN At(s, y) \cup {Len(s) + 1} ELSE At(s, y)
  BY <1>1
<1>4. ASSUME NEW y PROVE IsFiniteSet(At(s, y)) /\ Cardinality(At(s, y)) \in Nat
  <2>1. IsFiniteSet(1 .. Len(s)) /\ At(s, y) \subseteq 1 .. Len(s)
    BY <1>1, FS_Interval
  <2> QED BY <2>1, FS_Subset, FS_CardinalityType
<1>5. ASSUME NEW y PROVE Cardinality(At(t, y)) = IF y = x THEN Cardinality(At(s, y)) + 1
                                                 ELSE Cardinality(At(s, y))
  <2>1. Len(s) + 1 \notin At(s, y)
    BY <1>1
  <2> HIDE DEF At
  <2> QED BY <1>3, <1>4, <2>1, FS_AddElement
<1>6. x \notin {s[i] : i \in DOMAIN s} => Cardinality(At(s, x)) = 0
  <2>1. x \notin {s[i] : i \in DOMAIN s} => At(s, x) = {}
    OBVIOUS
  <2> QED BY <2>1, FS_EmptySet
<1>7. /\ ToBag(t) = [y \in {t[i] : i \in DOMAIN t} |-> Cardinality(At(t, y))]
      /\ ToBag(s) = [y \in {s[i] : i \in DOMAIN s} |-> Cardinality(At(s, y))]
  BY DEF ToBag, Range
<1> DEFINE R == {s[i] : i \in DOMAIN s}
           C(r, y) == Cardinality(At(r, y))
<1>8. ToBag(t) = [y \in R \cup {x} |-> C(t, y)]
  BY <1>2, <1>7
<1>9. \A y : C(t, y) = IF y = x THEN C(s, y) + 1 ELSE C(s, y)
  BY <1>5
<1>10. \A y : C(s, y) \in Nat
  BY <1>4
<1>11. ToBag(s) = [y \in R |-> C(s, y)] /\ (x \notin R => C(s, x) = 0)
  BY <1>6, <1>7
<1> HIDE DEF R, C
<1>12. ToBag(s) (+) SetToBag({x}) = [y \in R \cup {x} |-> C(t, y)]
  BY <1>9, <1>10, <1>11 DEF (+), SetToBag
<1> QED BY <1>8, <1>12 DEF t

\* linear_parser::add_event adds an event to the trace, and ends the trace with the last one.
LEMMA LinearAdds ==
  ASSUME NEW s, NEW traces \in Seq(AnyTrace), NEW rest \in Seq(PlainEvents),
         LinearIs(s, traces, rest)
  PROVE  /\ \A e \in PlainEvents : LinearIs(LinearAdd(s, e), traces, Append(rest, e))
         /\ LinearIs(LinearAdd(s, TerminalEvent), Append(traces, Closed(rest)), <<>>)
<1>1. ASSUME NEW e \in PlainEvents PROVE LinearIs(LinearAdd(s, e), traces, Append(rest, e))
  <2>1. s = [temp_trace |-> rest, vector_trace_set |-> ToBag(traces)] /\ e.terminal = FALSE
    BY DEF LinearIs, PlainEvents, Event
  <2>2. LinearAdd(s, e) = [s EXCEPT !.temp_trace = Append(rest, e)]
    BY <2>1 DEF LinearAdd
  <2> DEFINE longer == Append(rest, e)
             bag    == ToBag(traces)
  <2> HIDE DEF longer, bag
  <2>3. [[temp_trace |-> rest, vector_trace_set |-> bag] EXCEPT !.temp_trace = longer]
          = [temp_trace |-> longer, vector_trace_set |-> bag]
    OBVIOUS
  <2> QED BY <2>1, <2>2, <2>3 DEF LinearIs, longer, bag
<1>2. ToBag(Append(traces, Closed(rest))) = ToBag(traces) (+) SetToBag({Closed(rest)})
  BY BagOfAppend DEF AnyTrace
<1>3. LinearIs(LinearAdd(s, TerminalEvent), Append(traces, Closed(rest)), <<>>)
  BY <1>2 DEF LinearIs, LinearAdd, TerminalEvent, Closed
<1> QED BY <1>1, <1>3

-----------------------------------------------------------------------------
HoldsAt(e, name) == IF name = EndOfTrace THEN e.terminal ELSE name \in e.props

MapOfRest(rest) == [name \in UNION {e.props : e \in ToSet(rest)} |-> PositionsOf(rest, name)]

MapIs(s, traces, rest) ==
  s = [temp_trace    |-> MapOfRest(rest),
       pos_count     |-> Len(rest),
       map_trace_set |-> {MapOf(traces[i]) : i \in DOMAIN traces}]

\* A sequence without elements is empty.
LEMMA NothingIn ==
  ASSUME NEW T, NEW s \in Seq(T), ToSet(s) = {}
  PROVE  s = <<>>
<1>1. DOMAIN s = 1 .. Len(s) /\ Len(s) \in Nat
  OBVIOUS
<1>2. Len(s) > 0 => s[1] \in ToSet(s)
  BY <1>1 DEF ToSet
<1>3. Len(s) = 0
  BY <1>1, <1>2
<1> QED BY <1>3

\* The positions of a proposition are those of its events, counted from zero.
LEMMA PositionsType ==
  ASSUME NEW E, NEW trace \in Seq(E), NEW name
  PROVE  /\ PositionsOf(trace, name) \in Seq(Nat)
         /\ ToSet(PositionsOf(trace, name)) = {n - 1 : n \in {m \in DOMAIN trace : HoldsAt(trace[m], name)}}
<1> DEFINE S == {m \in DOMAIN trace : HoldsAt(trace[m], name)}
           at == Ascending(S, Len(trace))
<1>1. at \in Seq(1 .. Len(trace)) /\ ToSet(at) = S \cap (1 .. Len(trace))
  BY AscendingType
<1>2. S \cap (1 .. Len(trace)) = S
  OBVIOUS
<1>3. PositionsOf(trace, name) = [i \in DOMAIN at |-> at[i] - 1]
  BY DEF PositionsOf, HoldsAt
<1> HIDE DEF at
<1>4. DOMAIN at = 1 .. Len(at) /\ Len(at) \in Nat /\ \A i \in DOMAIN at : at[i] - 1 \in Nat
  BY <1>1
<1>5. {at[i] : i \in DOMAIN at} = S
  BY <1>1, <1>2 DEF ToSet
<1> HIDE DEF S
<1>6. PositionsOf(trace, name) \in Seq(Nat) /\ DOMAIN PositionsOf(trace, name) = DOMAIN at
  BY <1>3, <1>4
<1>7. {PositionsOf(trace, name)[i] : i \in DOMAIN at} = {n - 1 : n \in S}
  BY <1>3, <1>5
<1> QED BY <1>6, <1>7 DEF ToSet, S

\* A proposition that holds nowhere has no positions.
LEMMA NoPositions ==
  ASSUME NEW E, NEW trace \in Seq(E), NEW name, \A n \in DOMAIN trace : ~ HoldsAt(trace[n], name)
  PROVE  PositionsOf(trace, name) = <<>>
<1>1. ToSet(PositionsOf(trace, name)) = {} /\ PositionsOf(trace, name) \in Seq(Nat)
  <2>1. {m \in DOMAIN trace : HoldsAt(trace[m], name)} = {}
    OBVIOUS
  <2>2. {n - 1 : n \in {}} = {}
    OBVIOUS
  <2> QED BY <2>1, <2>2, PositionsType
<1> QED BY <1>1, NothingIn

\* One more event has a position for each of its propositions.
LEMMA PositionsAppend ==
  ASSUME NEW E, NEW trace \in Seq(E), NEW e \in E, NEW name
  PROVE  PositionsOf(Append(trace, e), name) =
           IF HoldsAt(e, name) THEN Append(PositionsOf(trace, name), Len(trace))
           ELSE PositionsOf(trace, name)
<1> DEFINE longer == Append(trace, e)
           n == Len(trace)
           S == {m \in DOMAIN trace : HoldsAt(trace[m], name)}
           T == {m \in DOMAIN longer : HoldsAt(longer[m], name)}
           at   == Ascending(S, n)
           next == Ascending(T, n + 1)
<1>1. /\ n \in Nat /\ Len(longer) = n + 1 /\ longer[n + 1] = e
      /\ DOMAIN longer = 1 .. n + 1 /\ DOMAIN trace = 1 .. n
      /\ \A m \in 1 .. n : longer[m] = trace[m]
  OBVIOUS
<1>2. PositionsOf(trace, name) = [i \in DOMAIN at |-> at[i] - 1]
  BY DEF PositionsOf, HoldsAt
<1>3. PositionsOf(longer, name) = [i \in DOMAIN next |-> next[i] - 1]
  BY <1>1 DEF PositionsOf, HoldsAt
<1> HIDE DEF longer, n
<1>4. \A m \in 1 .. n : m \in S <=> m \in T
  BY <1>1
<1>5. n + 1 \in T <=> HoldsAt(e, name)
  BY <1>1
<1>6. at \in Seq(1 .. n)
  BY <1>1, AscendingType
<1> HIDE DEF S, T
<1>7. next = IF n + 1 \in T THEN Append(at, n + 1) ELSE at
  BY <1>1, <1>4, AscendingStep
<1> HIDE DEF at, next
<1>8. CASE HoldsAt(e, name)
  <2>1. next = Append(at, n + 1) /\ DOMAIN at = 1 .. Len(at) /\ Len(at) \in Nat
    BY <1>5, <1>6, <1>7, <1>8
  <2>2. DOMAIN next = 1 .. Len(at) + 1 /\ next[Len(at) + 1] = n + 1 /\ \A i \in DOMAIN at : next[i] = at[i]
    BY <1>6, <2>1
  <2>3. PositionsOf(trace, name) \in Seq(Nat) /\ Len(PositionsOf(trace, name)) = Len(at)
    BY <1>2, <1>6, <2>1, PositionsType
  <2>4. Append(PositionsOf(trace, name), n) =
          [i \in 1 .. Len(at) + 1 |-> IF i = Len(at) + 1 THEN n ELSE at[i] - 1]
    BY <1>1, <1>2, <2>1, <2>3
  <2>5. (n + 1) - 1 = n
    BY <1>1
  <2>6. PositionsOf(longer, name) = [i \in 1 .. Len(at) + 1 |-> next[i] - 1]
    BY <1>3, <2>2
  <2> QED BY <1>8, <2>1, <2>2, <2>4, <2>5, <2>6 DEF longer, n
<1>9. CASE ~ HoldsAt(e, name)
  BY <1>2, <1>3, <1>5, <1>7, <1>9 DEF longer
<1> QED BY <1>8, <1>9

\* The end of a trace is not a proposition, and propositions are not the end of one.
LEMMA NamesAreNotTheEnd == EndOfTrace \notin Names
BY PropsAssumption DEF Names, Matched, EndOfTrace, EventSep

\* What there is to know of an event that is not the last.
LEMMA PlainEvent ==
  ASSUME NEW e \in PlainEvents
  PROVE  e.props \subseteq Names /\ e.terminal = FALSE /\ e = Event(e.props)
         /\ \A name : HoldsAt(e, name) <=> name \in e.props
<1>1. PICK props \in SUBSET Names : e = [props |-> props, terminal |-> FALSE]
  BY DEF PlainEvents, Event
<1>2. e.props = props /\ e.terminal = FALSE
  BY <1>1
<1>3. e = Event(e.props)
  BY <1>1, <1>2 DEF Event
<1> QED BY <1>2, <1>3, NamesAreNotTheEnd DEF HoldsAt

\* The map of the events so far, and what it becomes.
LEMMA MapOfRestAppend ==
  ASSUME NEW rest \in Seq(PlainEvents), NEW e \in PlainEvents
  PROVE  Pushed(MapOfRest(rest), e.props, Len(rest)) = MapOfRest(Append(rest, e))
<1> DEFINE longer == Append(rest, e)
           names  == UNION {d.props : d \in ToSet(rest)}
           Pos(r, name) == PositionsOf(r, name)
<1>1. /\ DOMAIN rest = 1 .. Len(rest) /\ DOMAIN longer = 1 .. Len(rest) + 1 /\ Len(rest) \in Nat
      /\ longer[Len(rest) + 1] = e /\ \A n \in 1 .. Len(rest) : longer[n] = rest[n]
  OBVIOUS
<1>2. {longer[n] : n \in DOMAIN longer} = {rest[n] : n \in DOMAIN rest} \cup {e}
  <2> HIDE DEF longer
  <2> QED BY <1>1
<1>3. ToSet(longer) = ToSet(rest) \cup {e}
  BY <1>2 DEF ToSet
<1>4. UNION {d.props : d \in ToSet(longer)} = e.props \cup names
  BY <1>3
<1>5. ASSUME NEW name PROVE Pos(longer, name) = IF name \in e.props THEN Append(Pos(rest, name), Len(rest))
                                                ELSE Pos(rest, name)
  <2>1. HoldsAt(e, name) <=> name \in e.props
    BY PlainEvent
  <2>2. Pos(longer, name) = IF HoldsAt(e, name) THEN Append(Pos(rest, name), Len(rest)) ELSE Pos(rest, name)
    BY PositionsAppend
  <2> QED BY <2>1, <2>2
<1>6. ASSUME NEW name, name \notin names PROVE Pos(rest, name) = <<>>
  <2>1. \A n \in DOMAIN rest : rest[n] \in PlainEvents /\ rest[n] \in ToSet(rest)
    BY DEF ToSet
  <2>2. \A n \in DOMAIN rest : ~ HoldsAt(rest[n], name)
    BY <1>6, <2>1, PlainEvent
  <2> QED BY <2>2, NoPositions
<1>7. MapOfRest(rest) = [name \in names |-> Pos(rest, name)]
  BY DEF MapOfRest
<1>8. MapOfRest(longer) = [name \in e.props \cup names |-> Pos(longer, name)]
  BY <1>4 DEF MapOfRest
<1> HIDE DEF longer, names, Pos
<1>9. \A name : PositionsIn(MapOfRest(rest), name) = Pos(rest, name)
  BY <1>6, <1>7 DEF PositionsIn
<1>10. Pushed(MapOfRest(rest), e.props, Len(rest))
         = [name \in e.props \cup names |-> IF name \in e.props THEN Append(Pos(rest, name), Len(rest))
                                            ELSE Pos(rest, name)]
  BY <1>7, <1>9 DEF Pushed
<1> QED BY <1>5, <1>8, <1>10 DEF longer

\* The map of a trace that ends is the one of its events with the end's position.
LEMMA MapOfClosed ==
  ASSUME NEW rest \in Seq(PlainEvents)
  PROVE  /\ Pushed(MapOfRest(rest), {EndOfTrace}, Len(rest)) = MapOf(Closed(rest))
         /\ MapOf(Closed(rest))[EndOfTrace] = <<Len(rest)>>
         /\ DOMAIN MapOf(Closed(rest)) = {EndOfTrace} \cup UNION {e.props : e \in ToSet(rest)}
         /\ \A name \in Names : PositionsOf(Closed(rest), name) = PositionsOf(rest, name)
<1> DEFINE names == UNION {d.props : d \in ToSet(rest)}
           E == PlainEvents \cup {TerminalEvent}
           Pos(r, name) == PositionsOf(r, name)
<1>1. rest \in Seq(E) /\ TerminalEvent \in E /\ Closed(rest) = Append(rest, TerminalEvent)
  BY DEF Closed
<1>2. \A name : HoldsAt(TerminalEvent, name) <=> name = EndOfTrace
  BY DEF HoldsAt, TerminalEvent
<1>3. ToSet(Closed(rest)) = ToSet(rest) \cup {TerminalEvent}
  <2> DEFINE closed == Closed(rest)
  <2>1. /\ DOMAIN rest = 1 .. Len(rest) /\ DOMAIN closed = 1 .. Len(rest) + 1 /\ Len(rest) \in Nat
        /\ closed[Len(rest) + 1] = TerminalEvent /\ \A n \in 1 .. Len(rest) : closed[n] = rest[n]
    BY <1>1
  <2> HIDE DEF closed
  <2>2. {closed[n] : n \in DOMAIN closed} = {rest[n] : n \in DOMAIN rest} \cup {TerminalEvent}
    BY <2>1
  <2> QED BY <2>2 DEF ToSet, closed
<1>4. UNION {d.props : d \in ToSet(Closed(rest))} = names
  <2>1. TerminalEvent.props = {}
    BY DEF TerminalEvent
  <2> QED BY <1>3, <2>1
<1>5. names \subseteq Names
  <2>1. ToSet(rest) \subseteq PlainEvents
    BY DEF ToSet
  <2> QED BY <2>1, PlainEvent
<1>6. ASSUME NEW name PROVE Pos(Closed(rest), name) = IF name = EndOfTrace THEN Append(Pos(rest, name), Len(rest))
                                                      ELSE Pos(rest, name)
  BY <1>1, <1>2, PositionsAppend
<1>7. Pos(rest, EndOfTrace) = <<>>
  <2>1. \A n \in DOMAIN rest : rest[n] \in PlainEvents
    OBVIOUS
  <2>2. \A n \in DOMAIN rest : ~ HoldsAt(rest[n], EndOfTrace)
    BY <2>1, PlainEvent, NamesAreNotTheEnd
  <2> QED BY <2>2, NoPositions
<1>8. MapOfRest(rest) = [name \in names |-> Pos(rest, name)]
  BY DEF MapOfRest
<1>9. MapOf(Closed(rest)) = [name \in {EndOfTrace} \cup names |-> Pos(Closed(rest), name)]
  BY <1>4 DEF MapOf
<1> HIDE DEF names, Pos, E
<1>10. PositionsIn(MapOfRest(rest), EndOfTrace) = <<>>
  BY <1>5, <1>8, NamesAreNotTheEnd DEF PositionsIn
<1>11. Pushed(MapOfRest(rest), {EndOfTrace}, Len(rest))
         = [name \in {EndOfTrace} \cup names |-> IF name = EndOfTrace THEN Append(<<>>, Len(rest))
                                                 ELSE Pos(rest, name)]
  BY <1>8, <1>10 DEF Pushed
<1>12. MapOf(Closed(rest))[EndOfTrace] = <<Len(rest)>>
  <2>1. MapOf(Closed(rest))[EndOfTrace] = Append(<<>>, Len(rest))
    BY <1>6, <1>7, <1>9
  <2>2. Append(<<>>, Len(rest)) = <<Len(rest)>>
    OBVIOUS
  <2> QED BY <2>1, <2>2
<1> QED BY <1>6, <1>7, <1>9, <1>11, <1>12, NamesAreNotTheEnd DEF Pos, names

\* map_parser::add_event adds an event to the map, and ends the map with the last one.
LEMMA MapAdds ==
  ASSUME NEW s, NEW traces \in Seq(AnyTrace), NEW rest \in Seq(PlainEvents),
         MapIs(s, traces, rest)
  PROVE  /\ \A e \in PlainEvents : MapIs(MapAdd(s, e), traces, Append(rest, e))
         /\ MapIs(MapAdd(s, TerminalEvent), Append(traces, Closed(rest)), <<>>)
<1> DEFINE maps == {MapOf(traces[i]) : i \in DOMAIN traces}
<1>1. s = [temp_trace |-> MapOfRest(rest), pos_count |-> Len(rest), map_trace_set |-> maps]
  BY DEF MapIs
<1>2. ASSUME NEW e \in PlainEvents PROVE MapIs(MapAdd(s, e), traces, Append(rest, e))
  <2> DEFINE map == MapOfRest(Append(rest, e))
  <2>1. e.terminal = FALSE
    BY PlainEvent
  <2>2. Pushed(MapOfRest(rest), e.props, Len(rest)) = map
    BY MapOfRestAppend
  <2>3. Len(Append(rest, e)) = Len(rest) + 1
    OBVIOUS
  <2>4. MapAdd(s, e) = [s EXCEPT !.temp_trace = Pushed(s.temp_trace, e.props, s.pos_count),
                                 !.pos_count = s.pos_count + 1]
    BY <2>1 DEF MapAdd
  <2> HIDE DEF map, maps
  <2>5. MapAdd(s, e) = [temp_trace |-> map, pos_count |-> Len(rest) + 1, map_trace_set |-> maps]
    BY <1>1, <2>2, <2>4
  <2> QED BY <2>3, <2>5 DEF MapIs, map, maps
<1>3. MapIs(MapAdd(s, TerminalEvent), Append(traces, Closed(rest)), <<>>)
  <2> DEFINE more == Append(traces, Closed(rest))
  <2>1. /\ DOMAIN traces = 1 .. Len(traces) /\ DOMAIN more = 1 .. Len(traces) + 1 /\ Len(traces) \in Nat
        /\ more[Len(traces) + 1] = Closed(rest) /\ \A i \in 1 .. Len(traces) : more[i] = traces[i]
    OBVIOUS
  <2>2. {MapOf(more[i]) : i \in DOMAIN more} = maps \cup {MapOf(Closed(rest))}
    <3> HIDE DEF more
    <3> QED BY <2>1
  <2>3. Pushed(MapOfRest(rest), {EndOfTrace}, Len(rest)) = MapOf(Closed(rest))
    BY MapOfClosed
  <2>4. MapOfRest(<<>>) = <<>>
    <3>1. ToSet(<<>>) = {}
      BY DEF ToSet
    <3>2. UNION {e.props : e \in {}} = {}
      OBVIOUS
    <3>3. MapOfRest(<<>>) = [name \in {} |-> PositionsOf(<<>>, name)]
      BY <3>1, <3>2 DEF MapOfRest
    <3> QED BY <3>3
  <2>5. Len(<<>>) = 0
    OBVIOUS
  <2> HIDE DEF maps, more
  <2>6. MapAdd(s, TerminalEvent) = [temp_trace |-> <<>>, pos_count |-> 0,
                                    map_trace_set |-> maps \cup {MapOf(Closed(rest))}]
    BY <1>1, <2>3 DEF MapAdd, TerminalEvent
  <2> QED BY <2>2, <2>4, <2>5, <2>6 DEF MapIs, more
<1> QED BY <1>2, <1>3

\* A trace can be read off its map.
LEMMA MapOfInjective ==
  ASSUME NEW s \in Seq(PlainEvents), NEW t \in Seq(PlainEvents),
         MapOf(Closed(s)) = MapOf(Closed(t))
  PROVE  s = t
<1>1. Len(s) = Len(t)
  <2>1. <<Len(s)>> = <<Len(t)>>
    BY MapOfClosed
  <2> QED BY <2>1
<1>2. \A name \in Names : PositionsOf(s, name) = PositionsOf(t, name)
  <2> SUFFICES ASSUME NEW name \in Names PROVE PositionsOf(s, name) = PositionsOf(t, name)
    OBVIOUS
  <2>1. name # EndOfTrace
    BY NamesAreNotTheEnd
  <2>2. CASE name \in DOMAIN MapOf(Closed(s))
    <3>1. /\ MapOf(Closed(s))[name] = PositionsOf(Closed(s), name)
          /\ MapOf(Closed(t))[name] = PositionsOf(Closed(t), name)
      BY <2>2 DEF MapOf
    <3> QED BY <3>1, MapOfClosed
  <2>3. CASE name \notin DOMAIN MapOf(Closed(s))
    <3>1. ASSUME NEW r \in Seq(PlainEvents), MapOf(Closed(r)) = MapOf(Closed(s))
          PROVE  PositionsOf(r, name) = <<>>
      <4>1. name \notin UNION {e.props : e \in ToSet(r)}
        BY <2>3, <3>1, MapOfClosed
      <4>2. \A n \in DOMAIN r : r[n] \in PlainEvents /\ r[n] \in ToSet(r)
        BY DEF ToSet
      <4>3. \A n \in DOMAIN r : ~ HoldsAt(r[n], name)
        BY <4>1, <4>2, PlainEvent
      <4> QED BY <4>3, NoPositions
    <3> QED BY <3>1
  <2> QED BY <2>2, <2>3
<1>3. ASSUME NEW n \in DOMAIN s PROVE s[n] = t[n]
  <2>1. n \in DOMAIN t /\ n \in Nat /\ s[n] \in PlainEvents /\ t[n] \in PlainEvents
    BY <1>1
  <2>2. ASSUME NEW r \in Seq(PlainEvents), n \in DOMAIN r, NEW name \in Names
        PROVE  name \in r[n].props <=> n - 1 \in ToSet(PositionsOf(r, name))
    <3> DEFINE At == {m \in DOMAIN r : HoldsAt(r[m], name)}
    <3>1. ToSet(PositionsOf(r, name)) = {m - 1 : m \in At}
      BY PositionsType
    <3>2. At \subseteq Nat
      OBVIOUS
    <3>3. n \in At <=> name \in r[n].props
      <4>1. r[n] \in PlainEvents
        BY <2>2
      <4> QED BY <2>2, <4>1, PlainEvent
    <3> HIDE DEF At
    <3>4. n - 1 \in {m - 1 : m \in At} <=> n \in At
      BY <2>1, <3>2
    <3> QED BY <3>1, <3>3, <3>4
  <2>3. \A name \in Names : name \in s[n].props <=> name \in t[n].props
    BY <1>2, <2>1, <2>2
  <2>4. s[n].props = t[n].props
    BY <2>1, <2>3, PlainEvent
  <2> QED BY <2>1, <2>4, PlainEvent
<1> QED BY <1>1, <1>3

\* The two parsers agree: the maps are those of the traces, one for each.
LEMMA MapsOfTheTraces ==
  ASSUME NEW l, NEW m, NEW traces \in Seq(AnyTrace), NEW rest,
         LinearIs(l, traces, rest), MapIs(m, traces, rest)
  PROVE  LET bag == BagToSet(l.vector_trace_set)
         IN /\ m.map_trace_set = {MapOf(tr) : tr \in bag}
            /\ Cardinality(m.map_trace_set) = Cardinality(bag)
<1> DEFINE bag  == BagToSet(l.vector_trace_set)
           maps == {MapOf(tr) : tr \in bag}
<1>1. bag = {traces[i] : i \in DOMAIN traces}
  BY DEF LinearIs, BagToSet, ToBag, Range
<1>2. m.map_trace_set = {MapOf(traces[i]) : i \in DOMAIN traces}
  BY DEF MapIs
<1>3. bag \subseteq AnyTrace /\ IsFiniteSet(bag)
  <2>1. bag \subseteq AnyTrace
    BY <1>1
  <2>2. IsFiniteSet(1 .. Len(traces)) /\ DOMAIN traces = 1 .. Len(traces)
    BY FS_Interval
  <2>3. [i \in 1 .. Len(traces) |-> traces[i]] \in Surjection(1 .. Len(traces), bag)
    BY <1>1, <2>2 DEF Surjection
  <2> QED BY <2>1, <2>2, <2>3, FS_Surjection
<1> HIDE DEF bag
<1>4. maps = m.map_trace_set
  BY <1>1, <1>2
<1>5. \A t, u \in bag : MapOf(t) = MapOf(u) => t = u
  <2> SUFFICES ASSUME NEW t \in bag, NEW u \in bag, MapOf(t) = MapOf(u) PROVE t = u
    OBVIOUS
  <2>1. PICK r \in Seq(PlainEvents) : t = Closed(r)
    BY <1>3 DEF AnyTrace
  <2>2. PICK q \in Seq(PlainEvents) : u = Closed(q)
    BY <1>3 DEF AnyTrace
  <2> QED BY <2>1, <2>2, MapOfInjective
<1>6. Cardinality(maps) = Cardinality(bag)
  <2> DEFINE f == [t \in bag |-> MapOf(t)]
  <2>1. f \in Bijection(bag, maps)
    <3>1. f \in [bag -> maps]
      OBVIOUS
    <3>2. \A t, u \in bag : f[t] = f[u] => t = u
      BY <1>5
    <3>3. \A x \in maps : \E t \in bag : f[t] = x
      OBVIOUS
    <3> HIDE DEF f, maps
    <3> QED BY <3>1, <3>2, <3>3 DEF Bijection, Injection, Surjection, IsInjective
  <2> HIDE DEF f, maps
  <2>2. ExistsBijection(bag, maps)
    BY <2>1 DEF ExistsBijection
  <2> QED BY <1>3, <2>2, FS_Bijection
<1> QED BY <1>4, <1>6 DEF bag

-----------------------------------------------------------------------------
(***************************************************************************)
(* The prefix tree: a node's key is the set of ids of the traces that      *)
(* begin with the events on the way to it.                                 *)
(***************************************************************************)
AnyEvent == PlainEvents \cup {TerminalEvent}

BeginsWith(trace, path) ==
  Len(path) <= Len(trace) /\ \A n \in 1 .. Len(path) : path[n] = trace[n]

\* begun holds the traces in the order of their ids.
Node(ids) == [trace_ids |-> ids, key |-> ids]

NodesAre(nodes, begun) ==
  /\ nodes = [path \in DOMAIN nodes |-> nodes[path]]
  /\ \A path \in DOMAIN nodes :
       /\ path \in Seq(AnyEvent) /\ path # <<>>
       /\ nodes[path] = Node(nodes[path].key) /\ nodes[path].key # {}
       /\ nodes[path].key = {id \in DOMAIN begun : BeginsWith(begun[id], path)}
  /\ \A id \in DOMAIN begun : \A n \in 1 .. Len(begun[id]) : SubSeq(begun[id], 1, n) \in DOMAIN nodes

TreeFields == {"trace_id", "temp_trace", "nodes", "null_dereferenced"}

TreeIs(s, traces, rest) ==
  /\ DOMAIN s = TreeFields
  /\ s.null_dereferenced = \E i \in DOMAIN traces : traces[i] = Closed(<<>>)
  /\ ~ s.null_dereferenced =>
       /\ s.temp_trace = rest
       /\ s.trace_id = IF rest = NoNode THEN Len(traces) ELSE Len(traces) + 1
       /\ NodesAre(s.nodes, Append(traces, rest))

\* The beginning of a sequence.
LEMMA Beginning ==
  ASSUME NEW E, NEW s \in Seq(E), NEW n \in 0 .. Len(s)
  PROVE  /\ SubSeq(s, 1, n) \in Seq(E) /\ Len(SubSeq(s, 1, n)) = n
         /\ \A k \in 1 .. n : SubSeq(s, 1, n)[k] = s[k]
         /\ \A t \in Seq(E) : Len(t) = n /\ (\A k \in 1 .. n : t[k] = s[k]) => t = SubSeq(s, 1, n)
<1>1. SubSeq(s, 1, n) \in Seq(E) /\ Len(SubSeq(s, 1, n)) = n
  OBVIOUS
<1>2. \A k \in 1 .. n : SubSeq(s, 1, n)[k] = s[k]
  OBVIOUS
<1>3. ASSUME NEW t \in Seq(E), Len(t) = n, \A k \in 1 .. n : t[k] = s[k] PROVE t = SubSeq(s, 1, n)
  <2> DEFINE b == SubSeq(s, 1, n)
  <2>1. b \in Seq(E) /\ Len(b) = Len(t) /\ \A k \in 1 .. Len(t) : b[k] = t[k]
    BY <1>1, <1>2, <1>3
  <2> HIDE DEF b
  <2>2. b = t
    BY <2>1
  <2> QED BY <2>2 DEF b
<1> QED BY <1>1, <1>2, <1>3

\* A visit takes the trace being built one event further, and no other.
LEMMA VisitExtends ==
  ASSUME NEW nodes, NEW traces \in Seq(Seq(AnyEvent)), NEW rest \in Seq(AnyEvent),
         NEW e \in AnyEvent, NodesAre(nodes, Append(traces, rest))
  PROVE  NodesAre(Visit(nodes, Append(rest, e), Len(traces) + 1), Append(traces, Append(rest, e)))
<1> DEFINE id     == Len(traces) + 1
           path   == Append(rest, e)
           begun  == Append(traces, rest)
           longer == Append(traces, path)
           new    == Visit(nodes, path, id)
           Through(b, p) == {i \in 1 .. id : BeginsWith(b[i], p)}
<1>1. /\ Len(traces) \in Nat /\ DOMAIN begun = 1 .. id /\ DOMAIN longer = 1 .. id
      /\ begun[id] = rest /\ longer[id] = path
      /\ \A i \in 1 .. id : i # id => begun[i] = traces[i] /\ longer[i] = traces[i] /\ traces[i] \in Seq(AnyEvent)
  <2>1. path \in Seq(AnyEvent)
    OBVIOUS
  <2> HIDE DEF path
  <2>2. ASSUME NEW r \in Seq(AnyEvent), NEW more, more = Append(traces, r)
        PROVE  DOMAIN more = 1 .. id /\ more[id] = r /\ \A i \in 1 .. Len(traces) : more[i] = traces[i]
    BY <2>2
  <2>3. Len(traces) \in Nat /\ \A i \in 1 .. Len(traces) : traces[i] \in Seq(AnyEvent)
    OBVIOUS
  <2>4. DOMAIN begun = 1 .. id /\ begun[id] = rest /\ \A i \in 1 .. Len(traces) : begun[i] = traces[i]
    BY <2>2
  <2>5. DOMAIN longer = 1 .. id /\ longer[id] = path /\ \A i \in 1 .. Len(traces) : longer[i] = traces[i]
    BY <2>1, <2>2
  <2>6. \A i \in 1 .. id : i # id => i \in 1 .. Len(traces)
    BY <2>3
  <2> HIDE DEF begun, longer
  <2> QED BY <2>3, <2>4, <2>5, <2>6
<1>2. /\ path \in Seq(AnyEvent) /\ Len(path) = Len(rest) + 1 /\ Len(rest) \in Nat /\ path # <<>>
      /\ \A k \in 1 .. Len(rest) : path[k] = rest[k]
  <2>1. path \in Seq(AnyEvent) /\ Len(path) = Len(rest) + 1 /\ Len(rest) \in Nat
    OBVIOUS
  <2>2. \A k \in 1 .. Len(rest) : path[k] = rest[k]
    OBVIOUS
  <2> HIDE DEF path
  <2>3. path # <<>>
    BY <2>1
  <2> QED BY <2>1, <2>2, <2>3
<1> HIDE DEF begun, longer, path, id
<1>3. /\ \A p \in DOMAIN nodes : p \in Seq(AnyEvent) /\ p # <<>> /\ nodes[p].key = Through(begun, p)
      /\ \A i \in 1 .. id : \A n \in 1 .. Len(begun[i]) : SubSeq(begun[i], 1, n) \in DOMAIN nodes
  BY <1>1 DEF NodesAre, begun
<1>4. /\ DOMAIN new = DOMAIN nodes \cup {path}
      /\ \A p \in DOMAIN nodes : p # path => new[p] = nodes[p]
      /\ new[path].key = IF path \in DOMAIN nodes THEN nodes[path].key \cup {id} ELSE {id}
      /\ new[path].trace_ids = IF path \in DOMAIN nodes THEN nodes[path].trace_ids \cup {id} ELSE {id}
      /\ new[path] = [trace_ids |-> new[path].trace_ids, key |-> new[path].key]
      /\ new = [p \in DOMAIN new |-> new[p]]
  BY DEF Visit, WithId, NewNode
<1> HIDE DEF new
<1>12. \A p \in DOMAIN new : new[p] = Node(new[p].key) /\ new[p].key # {}
  <2>1. \A p \in DOMAIN nodes : nodes[p] = Node(nodes[p].key) /\ nodes[p].key # {}
    BY DEF NodesAre
  <2>2. new[path].trace_ids = new[path].key
    <3>1. \A p \in DOMAIN nodes : nodes[p].trace_ids = nodes[p].key
      BY <2>1 DEF Node
    <3> QED BY <1>4, <3>1
  <2>3. new[path] = Node(new[path].key) /\ new[path].key # {}
    BY <1>4, <2>2 DEF Node
  <2> QED BY <1>4, <2>1, <2>3
<1>5. ASSUME NEW p \in Seq(AnyEvent), p # path, p # <<>> PROVE BeginsWith(path, p) <=> BeginsWith(rest, p)
  <2>1. Len(p) \in Nat
    OBVIOUS
  <2>2. BeginsWith(rest, p) => BeginsWith(path, p)
    BY <1>2, <2>1 DEF BeginsWith
  <2>3. ASSUME BeginsWith(path, p), Len(p) = Len(path) PROVE FALSE
    <3>1. \A k \in 1 .. Len(p) : p[k] = path[k]
      BY <2>3 DEF BeginsWith
    <3>2. p = path
      BY <1>2, <2>3, <3>1
    <3> QED BY <1>5, <3>2
  <2>4. ASSUME BeginsWith(path, p) PROVE BeginsWith(rest, p)
    <3>1. Len(p) <= Len(rest)
      BY <1>2, <2>1, <2>3, <2>4 DEF BeginsWith
    <3> QED BY <1>2, <2>1, <2>4, <3>1 DEF BeginsWith
  <2> QED BY <2>2, <2>4
<1>6. ASSUME NEW p \in Seq(AnyEvent), p # path, p # <<>> PROVE Through(begun, p) = Through(longer, p)
  BY <1>1, <1>5, <1>6
<1>7. Through(longer, path) = {i \in 1 .. Len(traces) : BeginsWith(traces[i], path)} \cup {id}
  <2>1. BeginsWith(path, path)
    BY <1>2 DEF BeginsWith
  <2> QED BY <1>1, <2>1 DEF id
<1>8. Through(longer, path) = Through(begun, path) \cup {id}
  BY <1>1, <1>7 DEF id
<1>9. path \notin DOMAIN nodes => Through(longer, path) = {id}
  <2> SUFFICES ASSUME NEW i \in 1 .. Len(traces), BeginsWith(traces[i], path) PROVE path \in DOMAIN nodes
    BY <1>7
  <2>1. i \in 1 .. id /\ begun[i] = traces[i] /\ traces[i] \in Seq(AnyEvent)
    BY <1>1 DEF id
  <2>2. Len(path) \in 1 .. Len(traces[i])
    BY <1>2, <2>1 DEF BeginsWith
  <2>3. path = SubSeq(traces[i], 1, Len(path))
    BY <1>2, <2>1, <2>2, Beginning DEF BeginsWith
  <2> QED BY <1>3, <2>1, <2>2, <2>3
<1>10. ASSUME NEW p \in DOMAIN new
       PROVE  p \in Seq(AnyEvent) /\ p # <<>> /\ new[p].key = Through(longer, p)
  <2>1. CASE p = path
    BY <1>2, <1>3, <1>4, <1>8, <1>9, <2>1
  <2>2. CASE p # path
    BY <1>3, <1>4, <1>6, <2>2
  <2> QED BY <2>1, <2>2
<1>11. ASSUME NEW i \in 1 .. id, NEW n \in 1 .. Len(longer[i])
       PROVE  SubSeq(longer[i], 1, n) \in DOMAIN new
  <2>1. CASE i # id
    BY <1>1, <1>3, <1>4, <1>11, <2>1
  <2>2. CASE i = id /\ n = Len(path)
    <3>1. path = SubSeq(path, 1, Len(path))
      BY <1>2, Beginning
    <3> QED BY <1>1, <1>4, <2>2, <3>1
  <2>3. CASE i = id /\ n # Len(path)
    <3>1. n \in 1 .. Len(rest) /\ n \in 0 .. Len(path) /\ n \in 0 .. Len(rest)
      BY <1>1, <1>2, <2>3
    <3>2. SubSeq(path, 1, n) = SubSeq(rest, 1, n)
      <4>1. /\ SubSeq(path, 1, n) \in Seq(AnyEvent) /\ Len(SubSeq(path, 1, n)) = n
            /\ \A k \in 1 .. n : SubSeq(path, 1, n)[k] = path[k]
        BY <1>2, <3>1, Beginning
      <4>2. \A k \in 1 .. n : SubSeq(path, 1, n)[k] = rest[k]
        BY <1>2, <3>1, <4>1
      <4> QED BY <3>1, <4>1, <4>2, Beginning
    <3> QED BY <1>1, <1>3, <1>4, <2>3, <3>1, <3>2
  <2> QED BY <2>1, <2>2, <2>3
<1> QED BY <1>1, <1>4, <1>10, <1>11, <1>12 DEF NodesAre, new, longer, path, id

\* A trace without events goes through no node.
LEMMA NewTraceHasNoNodes ==
  ASSUME NEW nodes, NEW begun \in Seq(Seq(AnyEvent)), NodesAre(nodes, begun)
  PROVE  NodesAre(nodes, Append(begun, <<>>))
<1> DEFINE more == Append(begun, <<>>)
<1>1. /\ Len(begun) \in Nat /\ DOMAIN begun = 1 .. Len(begun) /\ DOMAIN more = 1 .. Len(begun) + 1
      /\ more[Len(begun) + 1] = <<>> /\ \A i \in 1 .. Len(begun) : more[i] = begun[i]
  OBVIOUS
<1> HIDE DEF more
<1>2. ASSUME NEW path \in DOMAIN nodes
      PROVE  nodes[path].key = {id \in DOMAIN more : BeginsWith(more[id], path)}
  <2>1. path \in Seq(AnyEvent) /\ path # <<>>
    BY DEF NodesAre
  <2>2. ~ BeginsWith(<<>>, path)
    BY <2>1 DEF BeginsWith
  <2>3. {id \in DOMAIN more : BeginsWith(more[id], path)} = {id \in DOMAIN begun : BeginsWith(begun[id], path)}
    BY <1>1, <2>2
  <2> QED BY <2>3 DEF NodesAre
<1>3. ASSUME NEW id \in DOMAIN more, NEW n \in 1 .. Len(more[id])
      PROVE  SubSeq(more[id], 1, n) \in DOMAIN nodes
  <2>1. id # Len(begun) + 1
    BY <1>1
  <2>2. id \in DOMAIN begun /\ more[id] = begun[id]
    BY <1>1, <2>1
  <2>3. \A k \in DOMAIN begun : \A m \in 1 .. Len(begun[k]) : SubSeq(begun[k], 1, m) \in DOMAIN nodes
    BY DEF NodesAre
  <2>4. n \in 1 .. Len(begun[id])
    BY <2>2
  <2>5. SubSeq(begun[id], 1, n) \in DOMAIN nodes
    BY <2>2, <2>3, <2>4
  <2> QED BY <2>2, <2>5
<1> QED BY <1>2, <1>3 DEF NodesAre, more

\* The tree of the traces that have been given.
LEMMA NodesAreTree ==
  ASSUME NEW nodes, NEW traces \in Seq(Seq(AnyEvent)), NodesAre(nodes, Append(traces, <<>>))
  PROVE  nodes = TreeOf(traces)
<1> DEFINE begun           == Append(traces, <<>>)
           Beginnings(id)  == {SubSeq(traces[id], 1, n) : n \in DOMAIN traces[id]}
           Ids(path)       == {id \in DOMAIN traces : path \in Beginnings(id)}
<1>1. /\ Len(traces) \in Nat /\ DOMAIN traces = 1 .. Len(traces)
      /\ DOMAIN begun = 1 .. Len(traces) + 1 /\ begun[Len(traces) + 1] = <<>>
      /\ \A id \in 1 .. Len(traces) : begun[id] = traces[id] /\ traces[id] \in Seq(AnyEvent)
  OBVIOUS
<1> HIDE DEF begun
<1>2. ASSUME NEW path \in Seq(AnyEvent), path # <<>>, NEW id \in DOMAIN traces
      PROVE  BeginsWith(traces[id], path) <=> path \in Beginnings(id)
  <2>1. traces[id] \in Seq(AnyEvent) /\ DOMAIN traces[id] = 1 .. Len(traces[id])
    OBVIOUS
  <2>2. ASSUME BeginsWith(traces[id], path) PROVE path \in Beginnings(id)
    <3>1. Len(path) \in 1 .. Len(traces[id])
      BY <1>2, <2>1, <2>2 DEF BeginsWith
    <3>2. path = SubSeq(traces[id], 1, Len(path))
      BY <2>1, <2>2, <3>1, Beginning DEF BeginsWith
    <3> QED BY <2>1, <3>1, <3>2
  <2>3. ASSUME NEW n \in DOMAIN traces[id], path = SubSeq(traces[id], 1, n)
        PROVE  BeginsWith(traces[id], path)
    <3>1. n \in 1 .. Len(traces[id]) /\ n \in 0 .. Len(traces[id])
      BY <2>1
    <3>2. Len(path) = n /\ \A k \in 1 .. n : path[k] = traces[id][k]
      BY <2>1, <2>3, <3>1, Beginning
    <3> QED BY <3>1, <3>2 DEF BeginsWith
  <2> QED BY <2>2, <2>3
<1>3. ASSUME NEW path \in DOMAIN nodes
      PROVE  nodes[path] = Node(Ids(path)) /\ Ids(path) # {}
  <2>1. /\ path \in Seq(AnyEvent) /\ path # <<>>
        /\ nodes[path] = Node(nodes[path].key) /\ nodes[path].key # {}
        /\ nodes[path].key = {id \in DOMAIN begun : BeginsWith(begun[id], path)}
    BY DEF NodesAre, begun
  <2>2. ~ BeginsWith(<<>>, path)
    BY <2>1 DEF BeginsWith
  <2>3. {id \in DOMAIN begun : BeginsWith(begun[id], path)} = {id \in DOMAIN traces : BeginsWith(traces[id], path)}
    BY <1>1, <2>2
  <2>4. nodes[path].key = Ids(path)
    BY <1>2, <2>1, <2>3
  <2> QED BY <2>1, <2>4
<1>4. DOMAIN nodes = UNION {Beginnings(id) : id \in DOMAIN traces}
  <2>1. ASSUME NEW path \in DOMAIN nodes PROVE \E id \in DOMAIN traces : path \in Beginnings(id)
    BY <1>3
  <2>2. ASSUME NEW id \in DOMAIN traces, NEW n \in DOMAIN traces[id]
        PROVE  SubSeq(traces[id], 1, n) \in DOMAIN nodes
    <3>1. id \in DOMAIN begun /\ begun[id] = traces[id] /\ n \in 1 .. Len(begun[id])
      BY <1>1
    <3>2. SubSeq(begun[id], 1, n) \in DOMAIN nodes
      BY <3>1 DEF NodesAre, begun
    <3> QED BY <3>1, <3>2
  <2>3. \A id \in DOMAIN traces : Beginnings(id) \subseteq DOMAIN nodes
    BY <2>2
  <2> HIDE DEF Beginnings
  <2> QED BY <2>1, <2>3
<1>5. nodes = [path \in DOMAIN nodes |-> nodes[path]]
  BY DEF NodesAre
<1>6. TreeOf(traces) = [path \in UNION {Beginnings(id) : id \in DOMAIN traces} |-> Node(Ids(path))]
  BY DEF TreeOf, Node
<1> HIDE DEF Beginnings, Ids
<1>7. [path \in DOMAIN nodes |-> nodes[path]] = [path \in DOMAIN nodes |-> Node(Ids(path))]
  BY <1>3
<1> QED BY <1>4, <1>5, <1>6, <1>7

\* The tree a visit leaves.
LEMMA VisitedTree ==
  ASSUME NEW s, DOMAIN s = TreeFields, ~ s.null_dereferenced, NEW e,
         ~ (e.terminal /\ s.temp_trace = NoNode), NEW id,
         id = IF s.temp_trace = NoNode THEN s.trace_id + 1 ELSE s.trace_id
  PROVE  /\ DOMAIN TreeAdd(s, e) = TreeFields
         /\ TreeAdd(s, e).trace_id = id
         /\ TreeAdd(s, e).nodes = Visit(s.nodes, Append(s.temp_trace, e), id)
         /\ TreeAdd(s, e).temp_trace = IF e.terminal THEN NoNode ELSE Append(s.temp_trace, e)
         /\ TreeAdd(s, e).null_dereferenced = s.null_dereferenced
<1> DEFINE nodes == Visit(s.nodes, Append(s.temp_trace, e), id)
           temp  == IF e.terminal THEN NoNode ELSE Append(s.temp_trace, e)
           t     == [s EXCEPT !.trace_id = id, !.nodes = nodes, !.temp_trace = temp]
<1>1. TreeAdd(s, e) = t
  BY DEF TreeAdd
<1>2. /\ DOMAIN t = TreeFields /\ t.trace_id = id /\ t.nodes = nodes /\ t.temp_trace = temp
      /\ t.null_dereferenced = s.null_dereferenced
  <2> HIDE DEF nodes, temp
  <2> QED BY DEF TreeFields
<1> HIDE DEF t
<1> QED BY <1>1, <1>2

\* prefix_tree_parser::add_event adds an event to the tree, and ends the trace with the last one.
LEMMA TreeAdds ==
  ASSUME NEW s, NEW traces \in Seq(AnyTrace), NEW rest \in Seq(PlainEvents), TreeIs(s, traces, rest)
  PROVE  /\ \A e \in PlainEvents : TreeIs(TreeAdd(s, e), traces, Append(rest, e))
         /\ TreeIs(TreeAdd(s, TerminalEvent), Append(traces, Closed(rest)), <<>>)
<1> DEFINE more == Append(traces, Closed(rest))
           Failed(ts) == \E i \in DOMAIN ts : ts[i] = Closed(<<>>)
           id == Len(traces) + 1
<1>1. traces \in Seq(Seq(AnyEvent)) /\ rest \in Seq(AnyEvent) /\ Len(traces) \in Nat
  <2>1. AnyTrace \subseteq Seq(AnyEvent)
    <3> SUFFICES ASSUME NEW es \in Seq(PlainEvents) PROVE Closed(es) \in Seq(AnyEvent)
      BY DEF AnyTrace
    <3>1. es \in Seq(AnyEvent) /\ TerminalEvent \in AnyEvent
      BY DEF AnyEvent
    <3> QED BY <3>1 DEF Closed
  <2> QED BY <2>1 DEF AnyEvent
<1>2. Failed(more) <=> Failed(traces) \/ rest = <<>>
  <2>1. /\ DOMAIN traces = 1 .. Len(traces) /\ DOMAIN more = 1 .. Len(traces) + 1
        /\ more[Len(traces) + 1] = Closed(rest) /\ \A i \in 1 .. Len(traces) : more[i] = traces[i]
    BY <1>1
  <2>2. Closed(rest) = Closed(<<>>) => rest = <<>>
    <3>1. Len(Closed(rest)) = Len(rest) + 1 /\ Len(Closed(<<>>)) = 1
      BY DEF Closed
    <3> QED BY <3>1
  <2> DEFINE none == Closed(<<>>)
             last == Closed(rest)
  <2>3. last = none <=> rest = <<>>
    BY <2>2
  <2> HIDE DEF more, none, last
  <2>4. \A i \in 1 .. Len(traces) + 1 : i = Len(traces) + 1 \/ i \in 1 .. Len(traces)
    BY <1>1
  <2>5. Len(traces) + 1 \in 1 .. Len(traces) + 1 /\ \A i \in 1 .. Len(traces) : i \in 1 .. Len(traces) + 1
    BY <1>1
  <2>6. (\E i \in DOMAIN more : more[i] = none) <=> (\E i \in DOMAIN traces : traces[i] = none) \/ last = none
    BY <2>1, <2>4, <2>5 DEF last
  <2> QED BY <2>3, <2>6 DEF none
<1>3. s.null_dereferenced = Failed(traces)
  BY DEF TreeIs
<1>4. CASE s.null_dereferenced
  <2>1. \A e : TreeAdd(s, e) = s
    BY <1>4 DEF TreeAdd
  <2>2. s.null_dereferenced = Failed(more)
    BY <1>2, <1>3, <1>4
  <2>3. TreeIs(s, more, <<>>) /\ \A e \in PlainEvents : TreeIs(s, traces, Append(rest, e))
    BY <1>4, <2>2 DEF TreeIs
  <2> QED BY <2>1, <2>3
<1>5. CASE ~ s.null_dereferenced
  <2>1. /\ s.temp_trace = rest /\ NodesAre(s.nodes, Append(traces, rest))
        /\ s.trace_id = IF rest = NoNode THEN Len(traces) ELSE Len(traces) + 1
        /\ DOMAIN s = TreeFields /\ s.null_dereferenced = FALSE
    BY <1>3, <1>5 DEF TreeIs
  <2>2. ASSUME NEW e \in AnyEvent, ~ (e.terminal /\ rest = NoNode)
        PROVE  /\ DOMAIN TreeAdd(s, e) = TreeFields
               /\ TreeAdd(s, e).trace_id = id
               /\ TreeAdd(s, e).nodes = Visit(s.nodes, Append(rest, e), id)
               /\ TreeAdd(s, e).temp_trace = IF e.terminal THEN NoNode ELSE Append(rest, e)
               /\ TreeAdd(s, e).null_dereferenced = FALSE
    BY <2>1, <2>2, VisitedTree
  <2>3. ASSUME NEW e \in PlainEvents PROVE TreeIs(TreeAdd(s, e), traces, Append(rest, e))
    <3>1. e.terminal = FALSE /\ e \in AnyEvent
      BY PlainEvent DEF AnyEvent
    <3> DEFINE t == TreeAdd(s, e)
    <3>2. /\ DOMAIN t = TreeFields /\ t.trace_id = id /\ t.nodes = Visit(s.nodes, Append(rest, e), id)
          /\ t.temp_trace = Append(rest, e) /\ t.null_dereferenced = FALSE
      BY <2>2, <3>1
    <3>3. NodesAre(Visit(s.nodes, Append(rest, e), id), Append(traces, Append(rest, e)))
      BY <1>1, <2>1, <3>1, VisitExtends
    <3>4. Append(rest, e) # NoNode
      BY DEF NoNode
    <3>5. Failed(traces) = FALSE
      BY <1>3, <1>5
    <3> DEFINE nodes == Visit(s.nodes, Append(rest, e), id)
    <3> HIDE DEF nodes, id, t
    <3> QED BY <3>2, <3>3, <3>4, <3>5 DEF TreeIs, nodes, id, t
  <2>4. TreeIs(TreeAdd(s, TerminalEvent), more, <<>>)
    <3>1. TerminalEvent.terminal = TRUE /\ TerminalEvent \in AnyEvent
      BY DEF TerminalEvent, AnyEvent
    <3>2. CASE rest = NoNode
      <4>1. TreeAdd(s, TerminalEvent) = [s EXCEPT !.null_dereferenced = TRUE]
        BY <1>5, <2>1, <3>1, <3>2 DEF TreeAdd
      <4>2. DOMAIN TreeAdd(s, TerminalEvent) = TreeFields
            /\ TreeAdd(s, TerminalEvent).null_dereferenced = TRUE
        BY <2>1, <4>1 DEF TreeFields
      <4>3. Failed(more) = TRUE
        BY <1>2, <3>2 DEF NoNode
      <4> HIDE DEF more
      <4> QED BY <4>2, <4>3 DEF TreeIs
    <3>3. CASE rest # NoNode
      <4> DEFINE nodes == Visit(s.nodes, Closed(rest), id)
                 t     == TreeAdd(s, TerminalEvent)
      <4>1. /\ DOMAIN t = TreeFields /\ t.trace_id = id /\ t.nodes = nodes
            /\ t.temp_trace = <<>> /\ t.null_dereferenced = FALSE
        BY <2>2, <3>1, <3>3 DEF NoNode, Closed
      <4>2. NodesAre(nodes, more)
        BY <1>1, <2>1, <3>1, VisitExtends DEF Closed
      <4>3. more \in Seq(Seq(AnyEvent)) /\ Len(more) = id
        BY <1>1, <3>1 DEF Closed
      <4>4. NodesAre(nodes, Append(more, <<>>))
        BY <4>2, <4>3, NewTraceHasNoNodes
      <4>5. Failed(more) = FALSE
        BY <1>2, <1>3, <1>5, <3>3 DEF NoNode
      <4> HIDE DEF more, nodes, id, t
      <4> QED BY <4>1, <4>3, <4>4, <4>5 DEF TreeIs, NoNode, t
    <3> QED BY <3>2, <3>3
  <2> QED BY <2>3, <2>4
<1>6. s.null_dereferenced \in BOOLEAN
  BY <1>3
<1> QED BY <1>4, <1>5, <1>6

\* Following a trace's id down the tree leads through exactly the beginnings of the trace.
LEMMA IdLeadsThroughTrace ==
  ASSUME NEW nodes, NEW begun \in Seq(Seq(AnyEvent)), NodesAre(nodes, begun),
         NEW id \in DOMAIN begun, NEW n \in DOMAIN begun[id]
  PROVE  ChildOfTrace(nodes, SubSeq(begun[id], 1, n - 1), id) = {SubSeq(begun[id], 1, n)}
<1> DEFINE trace == begun[id]
           path  == SubSeq(trace, 1, n - 1)
           next  == SubSeq(trace, 1, n)
<1>1. /\ trace \in Seq(AnyEvent) /\ n \in 1 .. Len(trace) /\ n - 1 \in 0 .. Len(trace)
      /\ n \in 0 .. Len(trace) /\ n \in Nat
  OBVIOUS
<1> HIDE DEF trace
<1>2. path \in Seq(AnyEvent) /\ Len(path) = n - 1 /\ \A k \in 1 .. n - 1 : path[k] = trace[k]
  BY <1>1, Beginning
<1>3. next \in Seq(AnyEvent) /\ Len(next) = n /\ \A k \in 1 .. n : next[k] = trace[k]
  BY <1>1, Beginning
<1>4. next \in DOMAIN nodes
  BY <1>1 DEF NodesAre, trace
<1>5. nodes[next].key = {i \in DOMAIN begun : BeginsWith(begun[i], next)}
  BY <1>4 DEF NodesAre
<1>6. BeginsWith(trace, next)
  BY <1>1, <1>3 DEF BeginsWith
<1>7. id \in nodes[next].key
  BY <1>5, <1>6 DEF trace
<1> HIDE DEF path, next
<1>8. SubSeq(next, 1, Len(path)) = path
  <2>1. Len(path) \in 0 .. Len(next) /\ \A k \in 1 .. Len(path) : path[k] = next[k]
    <3>1. n \in Nat /\ n >= 1 /\ Len(path) = n - 1 /\ Len(next) = n
      BY <1>1, <1>2, <1>3
    <3>2. Len(path) \in 0 .. Len(next) /\ \A k \in 1 .. Len(path) : k \in 1 .. n - 1 /\ k \in 1 .. n
      BY ONLY <3>1
    <3> QED BY <1>2, <1>3, <3>2
  <2> QED BY <1>2, <1>3, <2>1, Beginning
<1>9. next \in ChildOfTrace(nodes, path, id)
  BY <1>1, <1>2, <1>3, <1>4, <1>7, <1>8 DEF ChildOfTrace, Children
<1>10. ASSUME NEW node \in ChildOfTrace(nodes, path, id) PROVE node = next
  <2>1. node \in DOMAIN nodes /\ Len(node) = Len(path) + 1 /\ id \in nodes[node].key
    BY DEF ChildOfTrace, Children
  <2>2. node \in Seq(AnyEvent) /\ BeginsWith(trace, node)
    BY <2>1 DEF NodesAre, trace
  <2>3. Len(node) = n
    BY <1>1, <1>2, <2>1
  <2>4. \A k \in 1 .. n : node[k] = trace[k]
    BY <2>2, <2>3 DEF BeginsWith
  <2> QED BY <1>1, <2>2, <2>3, <2>4, Beginning DEF next
<1> QED BY <1>9, <1>10 DEF path, next, trace

-----------------------------------------------------------------------------
(***************************************************************************)
(* What one more line makes of the pieces of a log.                        *)
(***************************************************************************)

\* Sequences with the same elements are equal.
LEMMA SameSequence ==
  ASSUME NEW T, NEW s \in Seq(T), NEW t \in Seq(T), Len(s) = Len(t), \A i \in 1 .. Len(s) : s[i] = t[i]
  PROVE  s = t
OBVIOUS

\* Parts of a sequence that is one longer.
LEMMA SubSeqOfAppend ==
  ASSUME NEW L, NEW lines \in Seq(L), NEW l \in L,
         NEW a \in 1 .. Len(lines) + 1, NEW b \in 0 .. Len(lines)
  PROVE  /\ SubSeq(lines, a, b) \in Seq(L)
         /\ SubSeq(Append(lines, l), a, b) = SubSeq(lines, a, b)
         /\ SubSeq(Append(lines, l), a, Len(lines) + 1) = Append(SubSeq(lines, a, Len(lines)), l)
<1> DEFINE longer == Append(lines, l)
           n == Len(lines)
<1>1. /\ n \in Nat /\ longer \in Seq(L) /\ Len(longer) = n + 1 /\ longer[n + 1] = l
      /\ \A k \in 1 .. n : longer[k] = lines[k] /\ lines[k] \in L
  OBVIOUS
<1>2. ASSUME NEW s \in Seq(L), NEW c \in 0 .. Len(s)
      PROVE  /\ SubSeq(s, a, c) \in Seq(L)
             /\ Len(SubSeq(s, a, c)) = IF a <= c THEN c - a + 1 ELSE 0
             /\ \A k \in 1 .. Len(SubSeq(s, a, c)) : SubSeq(s, a, c)[k] = s[a + k - 1]
  OBVIOUS
<1>3. SubSeq(longer, a, b) = SubSeq(lines, a, b)
  <2>1. \A k \in 1 .. Len(SubSeq(lines, a, b)) : SubSeq(longer, a, b)[k] = SubSeq(lines, a, b)[k]
    BY <1>1, <1>2
  <2> QED BY <1>1, <1>2, <2>1
<1>4. SubSeq(longer, a, n + 1) = Append(SubSeq(lines, a, n), l)
  <2> DEFINE p == SubSeq(longer, a, n + 1)
             q == SubSeq(lines, a, n)
  <2>1. p \in Seq(L) /\ Len(p) = n + 2 - a /\ \A k \in 1 .. Len(p) : p[k] = longer[a + k - 1]
    BY <1>1, <1>2
  <2>2. q \in Seq(L) /\ Len(q) = n + 1 - a /\ \A k \in 1 .. Len(q) : q[k] = lines[a + k - 1]
    BY <1>1, <1>2
  <2>3. Append(q, l) \in Seq(L) /\ Len(Append(q, l)) = Len(q) + 1 /\ Append(q, l)[Len(q) + 1] = l
        /\ \A k \in 1 .. Len(q) : Append(q, l)[k] = q[k]
    BY <2>2
  <2> DEFINE r == Append(q, l)
  <2>4. r \in Seq(L) /\ Len(r) = Len(q) + 1 /\ r[Len(q) + 1] = l /\ \A k \in 1 .. Len(q) : r[k] = q[k]
    BY <2>3
  <2>5. a \in Nat /\ a >= 1 /\ a <= n + 1
    OBVIOUS
  <2> HIDE DEF p, q, r, longer, n
  <2>6. Len(r) = Len(p) /\ Len(q) \in Nat
    BY <1>1, <2>1, <2>2, <2>4, <2>5
  <2>7. ASSUME NEW k \in 1 .. Len(p) PROVE r[k] = p[k]
    <3>1. p[k] = longer[a + k - 1] /\ a + k - 1 \in 1 .. n + 1
      BY <1>1, <2>1, <2>5
    <3>2. CASE k = Len(p)
      <4>1. a + k - 1 = n + 1 /\ k = Len(q) + 1
        BY <1>1, <2>1, <2>2, <2>5, <3>2
      <4> QED BY <1>1, <2>4, <3>1, <4>1
    <3>3. CASE k # Len(p)
      <4>1. k \in 1 .. Len(q) /\ a + k - 1 \in 1 .. n
        BY <1>1, <2>1, <2>2, <2>5, <3>3
      <4>2. r[k] = q[k]
        BY <2>4, <4>1
      <4>3. q[k] = lines[a + k - 1]
        BY <2>2, <4>1
      <4>4. longer[a + k - 1] = lines[a + k - 1]
        BY <1>1, <4>1
      <4> QED BY <3>1, <4>2, <4>3, <4>4
    <3> QED BY <3>2, <3>3
  <2>8. r = p
    BY <2>1, <2>4, <2>6, <2>7, SameSequence
  <2> QED BY <2>8 DEF p, q, r, n
<1> QED BY <1>2, <1>3, <1>4 DEF longer, n

\* Nothing is nowhere.
LEMMA WhereOfNothing ==
  ASSUME NEW S
  PROVE  Where(<<>>, S) = <<>>
<1>1. Len(<<>>) = 0
  OBVIOUS
<1> QED BY <1>1, AscendingStep DEF Where

\* The positions of the lines in a set: one more line.
LEMMA WhereAppend ==
  ASSUME NEW L, NEW lines \in Seq(L), NEW l \in L, NEW S
  PROVE  /\ Where(<<>>, S) = <<>>
         /\ Where(lines, S) \in Seq(1 .. Len(lines))
         /\ ToSet(Where(lines, S)) = {n \in DOMAIN lines : lines[n] \in S}
         /\ Where(Append(lines, l), S) = IF l \in S THEN Append(Where(lines, S), Len(lines) + 1)
                                         ELSE Where(lines, S)
<1> DEFINE longer == Append(lines, l)
           A == {n \in DOMAIN lines : lines[n] \in S}
           B == {n \in DOMAIN longer : longer[n] \in S}
<1>1. /\ Len(lines) \in Nat /\ Len(longer) = Len(lines) + 1 /\ longer[Len(lines) + 1] = l
      /\ DOMAIN lines = 1 .. Len(lines) /\ DOMAIN longer = 1 .. Len(lines) + 1
      /\ \A k \in 1 .. Len(lines) : longer[k] = lines[k]
  OBVIOUS
<1> HIDE DEF longer
<1>2. \A k \in 1 .. Len(lines) : k \in A <=> k \in B
  BY <1>1
<1>3. Len(lines) + 1 \in B <=> l \in S
  BY <1>1
<1>4. A \cap (1 .. Len(lines)) = A
  BY <1>1
<1>5. Where(lines, S) = Ascending(A, Len(lines)) /\ Where(longer, S) = Ascending(B, Len(lines) + 1)
  BY <1>1 DEF Where
<1> HIDE DEF A, B
<1>6. Where(<<>>, S) = <<>>
  BY WhereOfNothing
<1>7. Ascending(A, Len(lines)) \in Seq(1 .. Len(lines)) /\ ToSet(Ascending(A, Len(lines))) = A
  BY <1>1, <1>4, AscendingType
<1>8. Ascending(B, Len(lines) + 1) = IF Len(lines) + 1 \in B THEN Append(Ascending(A, Len(lines)), Len(lines) + 1)
                                     ELSE Ascending(A, Len(lines))
  BY <1>1, <1>2, AscendingStep
<1> QED BY <1>3, <1>5, <1>6, <1>7, <1>8 DEF longer, A

\* The first and the last line of a piece, by the positions of the separators.
PieceStart(at, i)  == IF i = 1 THEN 1 ELSE at[i - 1] + 1
PieceEnd(at, n, i) == IF i = Len(at) + 1 THEN n ELSE at[i] - 1

\* The pieces one by one.
LEMMA PiecesAre ==
  ASSUME NEW L, NEW lines \in Seq(L), NEW seps, NEW at, at = Where(lines, seps)
  PROVE  /\ Pieces(lines, seps) \in Seq(Seq(L)) /\ Len(Pieces(lines, seps)) = Len(at) + 1
         /\ \A i \in 1 .. Len(at) + 1 :
              /\ Pieces(lines, seps)[i] = SubSeq(lines, PieceStart(at, i), PieceEnd(at, Len(lines), i))
              /\ PieceStart(at, i) \in 1 .. Len(lines) + 1
              /\ PieceEnd(at, Len(lines), i) \in 0 .. Len(lines)
<1> DEFINE starts == <<0>> \o at
           Start(i) == PieceStart(at, i)
           End(i)   == PieceEnd(at, Len(lines), i)
<1>1. at \in Seq(1 .. Len(lines)) /\ Len(lines) \in Nat
  <2>1. CASE lines = <<>>
    <3>1. Len(<<>>) = 0 /\ <<>> \in Seq(1 .. 0)
      OBVIOUS
    <3>2. Where(<<>>, seps) = <<>>
      BY WhereOfNothing
    <3> QED BY <2>1, <3>1, <3>2
  <2>2. CASE lines # <<>>
    <3>1. lines[1] \in L
      BY <2>2
    <3> QED BY <3>1, WhereAppend
  <2> QED BY <2>1, <2>2
<1>2. Len(at) \in Nat /\ DOMAIN at = 1 .. Len(at) /\ \A i \in 1 .. Len(at) : at[i] \in 1 .. Len(lines)
  BY <1>1
<1>3. /\ DOMAIN starts = 1 .. Len(at) + 1 /\ Len(starts) = Len(at) + 1 /\ starts[1] = 0
      /\ \A i \in 1 .. Len(at) : starts[i + 1] = at[i]
  BY <1>1, <1>2
<1>4. \A i \in 1 .. Len(at) + 1 : i # 1 => starts[i] = at[i - 1] /\ i - 1 \in 1 .. Len(at)
  <2> SUFFICES ASSUME NEW i \in 1 .. Len(at) + 1, i # 1
               PROVE  starts[i] = at[i - 1] /\ i - 1 \in 1 .. Len(at)
    OBVIOUS
  <2>1. i - 1 \in 1 .. Len(at) /\ (i - 1) + 1 = i
    BY <1>2
  <2> QED BY <1>3, <2>1
<1>5. Pieces(lines, seps) = [i \in DOMAIN starts |->
        SubSeq(lines, starts[i] + 1, IF i = Len(starts) THEN Len(lines) ELSE starts[i + 1] - 1)]
  BY DEF Pieces
<1> HIDE DEF starts
<1>6. ASSUME NEW i \in 1 .. Len(at) + 1
      PROVE  /\ starts[i] + 1 = Start(i)
             /\ (IF i = Len(starts) THEN Len(lines) ELSE starts[i + 1] - 1) = End(i)
             /\ Start(i) \in 1 .. Len(lines) + 1 /\ End(i) \in 0 .. Len(lines)
  <2>1. i # Len(at) + 1 => i \in 1 .. Len(at)
    BY <1>2
  <2>2. starts[i] + 1 = Start(i)
    BY <1>3, <1>4 DEF PieceStart
  <2>3. (IF i = Len(starts) THEN Len(lines) ELSE starts[i + 1] - 1) = End(i)
    BY <1>3, <2>1 DEF PieceEnd
  <2>4. Start(i) \in 1 .. Len(lines) + 1
    BY <1>1, <1>2, <1>4 DEF PieceStart
  <2>5. End(i) \in 0 .. Len(lines)
    BY <1>1, <1>2, <2>1 DEF PieceEnd
  <2> QED BY <2>2, <2>3, <2>4, <2>5
<1>7. Pieces(lines, seps) = [i \in 1 .. Len(at) + 1 |-> SubSeq(lines, Start(i), End(i))]
  BY <1>3, <1>5, <1>6
<1>8. \A i \in 1 .. Len(at) + 1 : SubSeq(lines, Start(i), End(i)) \in Seq(L)
  <2> SUFFICES ASSUME NEW i \in 1 .. Len(at) + 1 PROVE SubSeq(lines, Start(i), End(i)) \in Seq(L)
    OBVIOUS
  <2>1. Start(i) \in 1 .. Len(lines) + 1 /\ End(i) \in 0 .. Len(lines)
    BY <1>6
  <2> HIDE DEF Start, End
  <2> QED BY <1>1, <2>1
<1> HIDE DEF Start, End
<1>9. Pieces(lines, seps) \in Seq(Seq(L)) /\ Len(Pieces(lines, seps)) = Len(at) + 1
  BY <1>2, <1>7, <1>8
<1>10. \A i \in 1 .. Len(at) + 1 : Pieces(lines, seps)[i] = SubSeq(lines, Start(i), End(i))
  BY <1>7
<1> QED BY <1>6, <1>9, <1>10 DEF Start, End

\* Nothing is one piece, without lines.
LEMMA PiecesOfNothing ==
  ASSUME NEW seps
  PROVE  Pieces(<<>>, seps) = << <<>> >>
<1>1. Len(<<>>) = 0 /\ <<>> \in Seq(Int)
  OBVIOUS
<1>2. Where(<<>>, seps) = <<>>
  BY WhereOfNothing
<1>3. SubSeq(<<>>, 1, 0) = <<>>
  BY <1>1
<1> DEFINE none == <<>>
           at   == Where(none, seps)
           P    == Pieces(none, seps)
<1>4. none \in Seq(Int) /\ Len(none) = 0 /\ at = <<>> /\ Len(at) = 0
  BY <1>1, <1>2
<1> HIDE DEF none
<1>5. /\ P \in Seq(Seq(Int)) /\ Len(P) = Len(at) + 1
      /\ \A i \in 1 .. Len(at) + 1 : P[i] = SubSeq(none, PieceStart(at, i), PieceEnd(at, Len(none), i))
  <2>1. none \in Seq(Int)
    BY <1>4
  <2> HIDE <1>4
  <2> QED BY <2>1, PiecesAre
<1> HIDE DEF at, P
<1>6. Len(P) = 1 /\ PieceStart(at, 1) = 1 /\ PieceEnd(at, Len(none), 1) = 0
  BY <1>4, <1>5 DEF PieceStart, PieceEnd
<1>7. P[1] = SubSeq(none, 1, 0)
  BY <1>4, <1>5, <1>6
<1>8. P[1] = <<>>
  BY <1>3, <1>7 DEF none
<1> DEFINE R == << <<>> >>
<1>9. R \in Seq(Seq(Int)) /\ Len(R) = 1 /\ R[1] = <<>>
  OBVIOUS
<1> HIDE DEF R
<1>10. P = R
  BY <1>5, <1>6, <1>8, <1>9, SameSequence
<1> QED BY <1>10 DEF P, R, none

\* The pieces Q of lines that are one longer than those of P, by the line l.
OneMoreLine(L, P, Q, l, seps) ==
  /\ P \in Seq(Seq(L)) /\ Len(P) \in Nat \ {0} /\ Last(P) = P[Len(P)] /\ Last(P) \in Seq(L)
  /\ Q \in Seq(Seq(L)) /\ Len(Q) \in Nat \ {0} /\ Last(Q) = Q[Len(Q)]
  /\ l \in seps => Len(Q) = Len(P) + 1 /\ Last(Q) = <<>> /\ \A n \in 1 .. Len(P) : Q[n] = P[n]
  /\ l \notin seps => /\ Len(Q) = Len(P) /\ Last(Q) = Append(Last(P), l)
                      /\ \A n \in 1 .. Len(P) - 1 : Q[n] = P[n]

\* One more line is a new piece, or the next line of the last piece.
LEMMA PiecesAppend ==
  ASSUME NEW L, NEW lines \in Seq(L), NEW l \in L, NEW seps
  PROVE  OneMoreLine(L, Pieces(lines, seps), Pieces(Append(lines, l), seps), l, seps)
<1> DEFINE n       == Len(lines)
           longer  == Append(lines, l)
           at      == Where(lines, seps)
           next    == Where(longer, seps)
           Start(w, i)  == PieceStart(w, i)
           End(w, m, i) == PieceEnd(w, m, i)
           P == Pieces(lines, seps)
           Q == Pieces(longer, seps)
<1>1. n \in Nat /\ longer \in Seq(L) /\ Len(longer) = n + 1
  OBVIOUS
<1>2. at \in Seq(1 .. n) /\ next = IF l \in seps THEN Append(at, n + 1) ELSE at
  <2>1. at \in Seq(1 .. n)
    BY WhereAppend
  <2>2. next = IF l \in seps THEN Append(at, n + 1) ELSE at
    BY WhereAppend
  <2> QED BY <2>1, <2>2
<1>3. /\ P \in Seq(Seq(L)) /\ Len(P) = Len(at) + 1
      /\ \A i \in 1 .. Len(at) + 1 : /\ P[i] = SubSeq(lines, Start(at, i), End(at, n, i))
                                    /\ Start(at, i) \in 1 .. n + 1 /\ End(at, n, i) \in 0 .. n
  BY PiecesAre
<1>4. /\ Q \in Seq(Seq(L)) /\ Len(Q) = Len(next) + 1
      /\ \A i \in 1 .. Len(next) + 1 : Q[i] = SubSeq(longer, Start(next, i), End(next, n + 1, i))
  <2> HIDE DEF n, longer
  <2>1. /\ Q \in Seq(Seq(L)) /\ Len(Q) = Len(next) + 1
        /\ \A i \in 1 .. Len(next) + 1 : Q[i] = SubSeq(longer, Start(next, i), End(next, Len(longer), i))
    BY <1>1, PiecesAre
  <2> QED BY <1>1, <2>1
<1> HIDE DEF at, next, P, Q
<1>5. Len(at) \in Nat /\ DOMAIN at = 1 .. Len(at) /\ Len(next) \in Nat
  BY <1>2
<1>6. ASSUME NEW p \in Seq(Seq(L)), Len(p) \in Nat \ {0} PROVE Last(p) = p[Len(p)] /\ Last(p) \in Seq(L)
  <2>1. Len(p) \in DOMAIN p
    BY <1>6
  <2> QED BY <2>1 DEF Last
<1>7. /\ Len(P) \in Nat \ {0} /\ Last(P) = P[Len(P)] /\ Last(P) \in Seq(L)
       /\ Len(Q) \in Nat \ {0} /\ Last(Q) = Q[Len(Q)]
  <2>1. P \in Seq(Seq(L)) /\ Len(P) \in Nat \ {0}
    BY <1>3, <1>5
  <2>2. Q \in Seq(Seq(L)) /\ Len(Q) \in Nat \ {0}
    BY <1>4, <1>5
  <2> QED BY <1>6, <2>1, <2>2
<1>8. ASSUME NEW i \in 1 .. Len(at) + 1
      PROVE  /\ SubSeq(longer, Start(at, i), End(at, n, i)) = P[i]
             /\ SubSeq(longer, Start(at, i), n + 1) = Append(SubSeq(lines, Start(at, i), n), l)
  <2>1. /\ P[i] = SubSeq(lines, Start(at, i), End(at, n, i))
        /\ Start(at, i) \in 1 .. n + 1 /\ End(at, n, i) \in 0 .. n
    BY <1>3
  <2> DEFINE a == Start(at, i)
             b == End(at, n, i)
  <2>2. a \in 1 .. Len(lines) + 1 /\ b \in 0 .. Len(lines)
    BY <2>1
  <2> HIDE DEF a, b
  <2>3. SubSeq(longer, a, b) = SubSeq(lines, a, b) /\ SubSeq(longer, a, n + 1) = Append(SubSeq(lines, a, n), l)
    <3>1. SubSeq(Append(lines, l), a, b) = SubSeq(lines, a, b)
      BY <2>2, SubSeqOfAppend
    <3>2. SubSeq(Append(lines, l), a, Len(lines) + 1) = Append(SubSeq(lines, a, Len(lines)), l)
      BY <2>2, SubSeqOfAppend
    <3> QED BY <3>1, <3>2
  <2> QED BY <2>1, <2>3 DEF a, b
<1>9. CASE l \in seps
  <2>1. next = Append(at, n + 1) /\ Len(next) = Len(at) + 1
    BY <1>2, <1>9
  <2>2. next[Len(at) + 1] = n + 1 /\ \A i \in 1 .. Len(at) : next[i] = at[i]
    BY <1>2, <1>5, <2>1
  <2>3. ASSUME NEW i \in 1 .. Len(at) + 1 PROVE Start(next, i) = Start(at, i) /\ End(next, n + 1, i) = End(at, n, i)
    <3>1. i # 1 => i - 1 \in 1 .. Len(at)
      BY <1>5
    <3>2. i # Len(at) + 1 => i \in 1 .. Len(at)
      BY <1>5
    <3>3. i # Len(next) + 1
      BY <1>5, <2>1
    <3> QED BY <1>1, <2>1, <2>2, <3>1, <3>2, <3>3 DEF PieceStart, PieceEnd
  <2>4. Start(next, Len(at) + 2) = n + 2 /\ End(next, n + 1, Len(at) + 2) = n + 1
    <3>1. Len(at) + 2 # 1 /\ (Len(at) + 2) - 1 = Len(at) + 1 /\ Len(at) + 2 = Len(next) + 1
      BY <1>5, <2>1
    <3> QED BY <1>1, <2>2, <3>1 DEF PieceStart, PieceEnd
  <2>5. SubSeq(longer, n + 2, n + 1) = <<>>
    BY <1>1
  <2>6. Len(Q) = Len(at) + 2 /\ Q[Len(at) + 2] = <<>> /\ \A i \in 1 .. Len(at) + 1 : Q[i] = P[i]
    <3>1. Len(next) + 1 = Len(at) + 2
      BY <1>5, <2>1
    <3>2. Len(at) + 2 \in 1 .. Len(at) + 2 /\ \A i \in 1 .. Len(at) + 1 : i \in 1 .. Len(at) + 2
      BY <1>5
    <3> QED BY <1>4, <1>8, <2>3, <2>4, <2>5, <3>1, <3>2
  <2>7. Len(Q) = Len(P) + 1 /\ Len(Q) = Len(at) + 2 /\ Len(P) = Len(at) + 1
    BY <1>3, <1>5, <2>6
  <2>8. Last(Q) = <<>>
    BY <1>7, <2>6, <2>7
  <2>9. OneMoreLine(L, P, Q, l, seps)
    BY <1>3, <1>4, <1>9, <1>7, <2>6, <2>7, <2>8 DEF OneMoreLine
  <2> QED BY <2>9 DEF P, Q
<1>10. CASE l \notin seps
  <2>1. next = at
    BY <1>2, <1>10
  <2>2. ASSUME NEW i \in 1 .. Len(at) + 1
        PROVE  Q[i] = IF i = Len(at) + 1 THEN Append(P[i], l) ELSE P[i]
    <3>1. Q[i] = SubSeq(longer, Start(at, i), End(at, n + 1, i))
      BY <1>4, <2>1
    <3>2. CASE i = Len(at) + 1
      BY <1>3, <1>8, <3>1, <3>2 DEF PieceEnd
    <3>3. CASE i # Len(at) + 1
      BY <1>8, <3>1, <3>3 DEF PieceEnd
    <3> QED BY <3>2, <3>3
  <2>3. Len(Q) = Len(P) /\ Len(P) = Len(at) + 1
    BY <1>3, <1>4, <2>1
  <2>4. Last(Q) = Append(Last(P), l)
    <3>1. Len(P) \in 1 .. Len(at) + 1
      BY <1>5, <2>3
    <3> QED BY <1>7, <2>2, <2>3, <3>1
  <2>5. \A k \in 1 .. Len(P) - 1 : Q[k] = P[k]
    <3>1. \A k \in 1 .. Len(P) - 1 : k \in 1 .. Len(at) + 1 /\ k # Len(at) + 1
      BY <1>5, <2>3
    <3> QED BY <2>2, <3>1
  <2>9. OneMoreLine(L, P, Q, l, seps)
    BY <1>3, <1>4, <1>10, <1>7, <2>3, <2>4, <2>5 DEF OneMoreLine
  <2> QED BY <2>9 DEF P, Q
<1> QED BY <1>9, <1>10

-----------------------------------------------------------------------------
(***************************************************************************)
(* The events and the traces of the lines read so far, as get_event breaks *)
(* them up.                                                                *)
(***************************************************************************)
Seps == {EventSep} \cup TwoCharProps

PropsIn(lines) == ToSet(lines) \cap (Matched \ Seps)

\* The events that were returned, and the propositions of the one that was not yet.
Ended(mult, lines) ==
  IF mult THEN LET piece == Pieces(lines, Seps)
               IN [n \in 1 .. Len(piece) - 1 |-> Event(PropsIn(piece[n]))]
  ELSE SinglePropEvents(lines)

Collected(mult, lines) == IF mult THEN PropsIn(Last(Pieces(lines, Seps))) ELSE {}

\* All of them, once a trace separator has ended the last event.
Whole(mult, lines) == IF Collected(mult, lines) = {} THEN Ended(mult, lines)
                      ELSE Append(Ended(mult, lines), Event(Collected(mult, lines)))

\* The elements of a sequence and of the one that is one longer.
LEMMA ToSetAppend ==
  ASSUME NEW T, NEW s \in Seq(T), NEW x \in T
  PROVE  ToSet(Append(s, x)) = ToSet(s) \cup {x} /\ ToSet(s) \subseteq T
<1> DEFINE t == Append(s, x)
<1>1. /\ Len(s) \in Nat /\ DOMAIN s = 1 .. Len(s) /\ DOMAIN t = 1 .. Len(s) + 1 /\ t[Len(s) + 1] = x
      /\ \A n \in 1 .. Len(s) : t[n] = s[n] /\ s[n] \in T
  OBVIOUS
<1> HIDE DEF t
<1>2. {t[n] : n \in DOMAIN t} = {s[n] : n \in DOMAIN s} \cup {x}
  BY <1>1
<1>3. {s[n] : n \in DOMAIN s} \subseteq T
  BY <1>1
<1> QED BY <1>2, <1>3 DEF ToSet, t

\* An empty sequence has no elements.
LEMMA ToSetOfNothing == ToSet(<<>>) = {}
<1>1. DOMAIN <<>> = {}
  OBVIOUS
<1> QED BY <1>1 DEF ToSet

\* A sequence with an element more.
LEMMA AppendedSequence ==
  ASSUME NEW T, NEW s \in Seq(T), NEW x \in T, NEW t \in Seq(T),
         Len(t) = Len(s) + 1, t[Len(s) + 1] = x, \A n \in 1 .. Len(s) : t[n] = s[n]
  PROVE  t = Append(s, x)
<1> DEFINE r == Append(s, x)
<1>1. r \in Seq(T) /\ Len(r) = Len(s) + 1 /\ r[Len(s) + 1] = x /\ Len(s) \in Nat
  OBVIOUS
<1>2. \A n \in 1 .. Len(s) : r[n] = s[n]
  OBVIOUS
<1> HIDE DEF r
<1>3. \A n \in 1 .. Len(s) + 1 : n = Len(s) + 1 \/ n \in 1 .. Len(s)
  BY <1>1
<1>4. \A n \in 1 .. Len(t) : t[n] = r[n]
  BY <1>1, <1>2, <1>3
<1>5. t = r
  BY <1>1, <1>4, SameSequence
<1> QED BY <1>5 DEF r

\* The propositions of a multi-propositional log are those of three characters or more.
LEMMA KindsOfLines ==
  /\ Matched \ Seps = Props /\ Names = Props \cup Seps /\ Props \cap Seps = {}
  /\ TraceSep \notin Seps \cup Props \cup Names /\ NoMatch \notin Seps \cup Props \cup Names
  /\ Lines = Names \cup {TraceSep, NoMatch}
BY PropsAssumption DEF Matched, Seps, Names, Lines, TraceSep, EventSep, NoMatch

\* One more line of a multi-propositional trace.
LEMMA MultiAppend ==
  ASSUME NEW lines \in Seq(Lines), NEW l \in Lines
  PROVE  /\ Ended(TRUE, lines) \in Seq(PlainEvents) /\ Collected(TRUE, lines) \subseteq Props
         /\ l \in Seps => /\ Ended(TRUE, Append(lines, l)) =
                               Append(Ended(TRUE, lines), Event(Collected(TRUE, lines)))
                          /\ Collected(TRUE, Append(lines, l)) = {}
         /\ l \notin Seps => /\ Ended(TRUE, Append(lines, l)) = Ended(TRUE, lines)
                             /\ Collected(TRUE, Append(lines, l)) =
                                  Collected(TRUE, lines) \cup ({l} \cap Props)
<1> DEFINE P == Pieces(lines, Seps)
           Q == Pieces(Append(lines, l), Seps)
           E(x) == Event(PropsIn(x))
           O == Ended(TRUE, lines)
           R == Ended(TRUE, Append(lines, l))
<1>1. OneMoreLine(Lines, P, Q, l, Seps)
  BY PiecesAppend
<1>2. \A x : PropsIn(x) \subseteq Props /\ E(x) \in PlainEvents
  BY KindsOfLines DEF PropsIn, PlainEvents
<1>3. PropsIn(<<>>) = {}
  BY ToSetOfNothing DEF PropsIn
<1>4. O = [n \in 1 .. Len(P) - 1 |-> E(P[n])] /\ R = [n \in 1 .. Len(Q) - 1 |-> E(Q[n])]
  BY DEF Ended
<1>5. Collected(TRUE, lines) = PropsIn(Last(P)) /\ Collected(TRUE, Append(lines, l)) = PropsIn(Last(Q))
  BY DEF Collected
<1> HIDE DEF P, Q, E, O, R
<1>6. ASSUME NEW p, Len(p) \in Nat \ {0}, NEW o, o = [n \in 1 .. Len(p) - 1 |-> E(p[n])]
      PROVE  o \in Seq(PlainEvents) /\ Len(o) = Len(p) - 1 /\ \A n \in 1 .. Len(p) - 1 : o[n] = E(p[n])
  <2> DEFINE m == Len(p) - 1
  <2>1. m \in Nat
    BY <1>6
  <2> HIDE DEF m
  <2>2. o = [n \in 1 .. m |-> E(p[n])]
    BY <1>6 DEF m
  <2>3. o \in Seq(PlainEvents) /\ Len(o) = m
    BY <1>2, <2>1, <2>2
  <2> QED BY <2>2, <2>3 DEF m
<1>7. Len(P) \in Nat \ {0} /\ Len(Q) \in Nat \ {0} /\ Last(P) = P[Len(P)] /\ Last(P) \in Seq(Lines)
  BY <1>1 DEF OneMoreLine
<1>8. O \in Seq(PlainEvents) /\ Len(O) = Len(P) - 1 /\ \A n \in 1 .. Len(P) - 1 : O[n] = E(P[n])
  BY <1>4, <1>6, <1>7
<1>9. CASE l \in Seps
  <2>1. Len(Q) = Len(P) + 1 /\ Last(Q) = <<>> /\ \A n \in 1 .. Len(P) : Q[n] = P[n]
    BY <1>1, <1>9 DEF OneMoreLine
  <2>3. R \in Seq(PlainEvents) /\ Len(R) = Len(Q) - 1 /\ \A n \in 1 .. Len(Q) - 1 : R[n] = E(Q[n])
    BY <1>4, <1>6, <1>7
  <2>4. Len(R) = Len(O) + 1 /\ Len(O) + 1 = Len(P) /\ Len(Q) - 1 = Len(P) /\ Len(P) \in 1 .. Len(P)
    BY <1>7, <1>8, <2>1, <2>3
  <2>5. R[Len(P)] = E(Last(P))
    BY <1>7, <2>1, <2>3, <2>4
  <2>6. \A n \in 1 .. Len(O) : R[n] = O[n]
    <3>1. \A n \in 1 .. Len(O) : n \in 1 .. Len(P) /\ n \in 1 .. Len(P) - 1 /\ n \in 1 .. Len(Q) - 1
      BY <1>7, <1>8, <2>4
    <3> QED BY <1>8, <2>1, <2>3, <3>1
  <2>7. R = Append(O, E(Last(P)))
    BY <1>2, <1>8, <2>3, <2>4, <2>5, <2>6, AppendedSequence
  <2> QED BY <1>2, <1>3, <1>5, <1>8, <1>9, <2>1, <2>7 DEF R, O, E
<1>10. CASE l \notin Seps
  <2>1. Len(Q) = Len(P) /\ Last(Q) = Append(Last(P), l) /\ \A n \in 1 .. Len(P) - 1 : Q[n] = P[n]
    BY <1>1, <1>10 DEF OneMoreLine
  <2>2. R = O
    BY <1>4, <2>1
  <2>3. ToSet(Append(Last(P), l)) = ToSet(Last(P)) \cup {l}
    BY <1>7, ToSetAppend
  <2>4. PropsIn(Last(Q)) = PropsIn(Last(P)) \cup ({l} \cap Props)
    BY <2>1, <2>3, KindsOfLines DEF PropsIn
  <2> QED BY <1>2, <1>5, <1>8, <1>10, <2>2, <2>4 DEF R, O
<1> QED BY <1>9, <1>10


\* Before the first line of a trace there is nothing.
LEMMA NothingEnded ==
  ASSUME NEW mult \in BOOLEAN
  PROVE  Ended(mult, <<>>) = <<>> /\ Collected(mult, <<>>) = {}
<1> DEFINE none == << <<>> >>
<1>1. Pieces(<<>>, Seps) = none
  BY PiecesOfNothing
<1>2. Len(none) = 1 /\ Last(none) = <<>>
  <2>1. Len(none) = 1 /\ none[1] = <<>>
    OBVIOUS
  <2> HIDE DEF none
  <2> QED BY <2>1 DEF Last
<1> HIDE DEF none
<1>3. Ended(TRUE, <<>>) = <<>>
  <2>1. Ended(TRUE, <<>>) = [n \in 1 .. Len(none) - 1 |-> Event(PropsIn(none[n]))]
    BY <1>1 DEF Ended
  <2>2. 1 .. Len(none) - 1 = {}
    BY <1>2
  <2>3. [n \in {} |-> Event(PropsIn(none[n]))] = <<>>
    OBVIOUS
  <2> QED BY <2>1, <2>2, <2>3
<1>4. PropsIn(<<>>) = {}
  BY ToSetOfNothing DEF PropsIn
<1>5. Collected(TRUE, <<>>) = {} /\ Collected(FALSE, <<>>) = {}
  BY <1>1, <1>2, <1>4 DEF Collected
<1>6. Ended(FALSE, <<>>) = <<>>
  <2> DEFINE nil == <<>>
             at  == Where(nil, Matched \cup {EventSep})
  <2>1. at = <<>>
    BY WhereOfNothing
  <2>2. DOMAIN at = {}
    BY <2>1
  <2> HIDE DEF nil
  <2>3. Ended(FALSE, nil) = [n \in DOMAIN at |-> Event({nil[at[n]]})]
    BY DEF Ended, SinglePropEvents
  <2> HIDE DEF at
  <2>4. Ended(FALSE, nil) = [n \in {} |-> Event({nil[at[n]]})]
    BY <2>2, <2>3
  <2>5. [n \in {} |-> Event({nil[at[n]]})] = <<>>
    OBVIOUS
  <2> QED BY <2>4, <2>5 DEF nil
<1>7. mult = TRUE \/ mult = FALSE
  OBVIOUS
<1> QED BY <1>3, <1>5, <1>6, <1>7

\* One more line of a trace whose lines are events.
LEMMA SingleAppend ==
  ASSUME NEW lines \in Seq(Lines), NEW l \in Lines
  PROVE  /\ Ended(FALSE, lines) \in Seq(PlainEvents)
         /\ l \in Names => Ended(FALSE, Append(lines, l)) = Append(Ended(FALSE, lines), Event({l}))
         /\ l \notin Names => Ended(FALSE, Append(lines, l)) = Ended(FALSE, lines)
<1> DEFINE n      == Len(lines)
           longer == Append(lines, l)
           at     == Where(lines, Names)
           next   == Where(longer, Names)
           E(x)   == Event({x})
           O == Ended(FALSE, lines)
           R == Ended(FALSE, longer)
<1>1. /\ at \in Seq(1 .. n) /\ ToSet(at) = {k \in DOMAIN lines : lines[k] \in Names}
      /\ next = IF l \in Names THEN Append(at, n + 1) ELSE at
  <2>1. at \in Seq(1 .. n) /\ ToSet(at) = {k \in DOMAIN lines : lines[k] \in Names}
    BY WhereAppend
  <2>2. next = IF l \in Names THEN Append(at, n + 1) ELSE at
    BY WhereAppend
  <2> QED BY <2>1, <2>2
<1>2. O = [k \in DOMAIN at |-> E(lines[at[k]])] /\ R = [k \in DOMAIN next |-> E(longer[next[k]])]
  BY DEF Ended, SinglePropEvents, Names
<1>3. n \in Nat /\ longer[n + 1] = l /\ \A k \in 1 .. n : longer[k] = lines[k]
  OBVIOUS
<1>4. \A x \in Names : E(x) \in PlainEvents
  BY DEF PlainEvents
<1> HIDE DEF n, longer, at, next, E, O, R
<1>5. DOMAIN at = 1 .. Len(at) /\ Len(at) \in Nat /\ \A k \in 1 .. Len(at) : at[k] \in 1 .. n
  BY <1>1, <1>3
<1>6. \A k \in 1 .. Len(at) : lines[at[k]] \in Names
  BY <1>1, <1>5 DEF ToSet
<1>7. O \in Seq(PlainEvents) /\ Len(O) = Len(at)
  BY <1>2, <1>4, <1>5, <1>6
<1>8. CASE l \in Names
  <2>1. /\ next \in Seq(1 .. n + 1) /\ DOMAIN next = 1 .. Len(at) + 1 /\ next[Len(at) + 1] = n + 1
        /\ \A k \in 1 .. Len(at) : next[k] = at[k]
    <3>1. at \in Seq(1 .. n + 1) /\ n + 1 \in 1 .. n + 1
      BY <1>1, <1>3
    <3> QED BY <1>1, <1>5, <1>8, <3>1
  <2>2. R[Len(at) + 1] = E(l) /\ \A k \in 1 .. Len(at) : R[k] = O[k]
    BY <1>2, <1>3, <1>5, <2>1
  <2>3. R \in Seq(PlainEvents) /\ Len(R) = Len(at) + 1
    <3>1. \A k \in 1 .. Len(at) + 1 : R[k] \in PlainEvents
      <4>1. \A k \in 1 .. Len(at) + 1 : k = Len(at) + 1 \/ k \in 1 .. Len(at)
        BY <1>5
      <4>2. \A k \in 1 .. Len(at) : O[k] \in PlainEvents
        BY <1>7
      <4> QED BY <1>4, <1>8, <2>2, <4>1, <4>2
    <3>2. R = [k \in 1 .. Len(at) + 1 |-> R[k]]
      BY <1>2, <2>1
    <3> QED BY <1>5, <3>1, <3>2
  <2>4. R = Append(O, E(l))
    BY <1>4, <1>7, <1>8, <2>2, <2>3, AppendedSequence
  <2> QED BY <1>7, <1>8, <2>4 DEF O, R, E, longer
<1>9. CASE l \notin Names
  <2>1. next = at
    BY <1>1, <1>9
  <2>2. R = O
    BY <1>2, <1>3, <1>5, <2>1
  <2> QED BY <1>7, <1>9, <2>2 DEF O, R, longer
<1> QED BY <1>8, <1>9

\* What a line that is no trace separator makes of the events ended and the propositions
\* collected before it.
TakesLine(mult, l, ended, collected, endedThen, collectedThen) ==
  /\ l = NoMatch => endedThen = ended /\ collectedThen = collected
  /\ mult /\ l \in Props => endedThen = ended /\ collectedThen = collected \cup {l}
  /\ mult /\ l \in Seps => endedThen = Append(ended, Event(collected)) /\ collectedThen = {}
  /\ ~ mult /\ l \in Names => endedThen = Append(ended, Event({l})) /\ collectedThen = {}

\* Together: a line that is not a trace separator, in either kind of log.
LEMMA LineOfTrace ==
  ASSUME NEW mult \in BOOLEAN, NEW lines \in Seq(Lines), NEW l \in Lines \ {TraceSep}
  PROVE  /\ Ended(mult, lines) \in Seq(PlainEvents) /\ Collected(mult, lines) \subseteq Props
         /\ Whole(mult, lines) \in Seq(PlainEvents)
         /\ TakesLine(mult, l, Ended(mult, lines), Collected(mult, lines),
                      Ended(mult, Append(lines, l)), Collected(mult, Append(lines, l)))
<1>1. \A props \in SUBSET Props : Event(props) \in PlainEvents
  BY KindsOfLines DEF PlainEvents
<1>2. CASE mult
  <2>1. mult = TRUE
    BY <1>2
  <2>2. Ended(mult, lines) \in Seq(PlainEvents) /\ Collected(mult, lines) \subseteq Props
    BY <2>1, MultiAppend
  <2>3. l \in Seps => /\ Ended(mult, Append(lines, l)) = Append(Ended(mult, lines), Event(Collected(mult, lines)))
                      /\ Collected(mult, Append(lines, l)) = {}
    BY <2>1, MultiAppend
  <2>4. l \notin Seps => /\ Ended(mult, Append(lines, l)) = Ended(mult, lines)
                         /\ Collected(mult, Append(lines, l)) = Collected(mult, lines) \cup ({l} \cap Props)
    BY <2>1, MultiAppend
  <2>5. Whole(mult, lines) \in Seq(PlainEvents)
    <3>1. Event(Collected(mult, lines)) \in PlainEvents
      BY <1>1, <2>2
    <3> QED BY <2>2, <3>1 DEF Whole
  <2>6. (l = NoMatch => l \notin Seps /\ {l} \cap Props = {}) /\ (l \in Props => l \notin Seps /\ {l} \cap Props = {l})
    BY KindsOfLines
  <2> QED BY <1>2, <2>2, <2>3, <2>4, <2>5, <2>6 DEF TakesLine
<1>3. CASE ~ mult
  <2>1. mult = FALSE
    BY <1>3
  <2>2. Ended(mult, lines) \in Seq(PlainEvents) /\ Collected(mult, lines) = {} /\ Collected(mult, Append(lines, l)) = {}
    BY <2>1, SingleAppend DEF Collected
  <2>3. l \in Names => Ended(mult, Append(lines, l)) = Append(Ended(mult, lines), Event({l}))
    BY <2>1, SingleAppend
  <2>4. l \notin Names => Ended(mult, Append(lines, l)) = Ended(mult, lines)
    BY <2>1, SingleAppend
  <2> QED BY <1>3, <2>2, <2>3, <2>4, KindsOfLines DEF Whole, TakesLine
<1> QED BY <1>2, <1>3


-----------------------------------------------------------------------------
(***************************************************************************)
(* The traces of a log: the ones a separator has closed, and what has been *)
(* read of the next one.                                                   *)
(***************************************************************************)
LastPiece(lines) == Last(Pieces(lines, {TraceSep}))

TracesIn(mult, lines) ==
  LET piece == Pieces(lines, {TraceSep})
  IN [n \in 1 .. Len(piece) - 1 |-> Closed(Whole(mult, piece[n]))]
EndedIn(mult, lines)     == Ended(mult, LastPiece(lines))
CollectedIn(mult, lines) == Collected(mult, LastPiece(lines))
WholeIn(mult, lines)     == Whole(mult, LastPiece(lines))

\* No line, no trace.
LEMMA EmptyLog ==
  ASSUME NEW mult \in BOOLEAN
  PROVE  TracesIn(mult, <<>>) = <<>> /\ EndedIn(mult, <<>>) = <<>> /\ CollectedIn(mult, <<>>) = {}
<1> DEFINE none == << <<>> >>
<1>1. Pieces(<<>>, {TraceSep}) = none
  BY PiecesOfNothing
<1>2. Len(none) = 1 /\ Last(none) = <<>>
  <2>1. Len(none) = 1 /\ none[1] = <<>>
    OBVIOUS
  <2> HIDE DEF none
  <2> QED BY <2>1 DEF Last
<1> HIDE DEF none
<1>3. LastPiece(<<>>) = <<>>
  BY <1>1, <1>2 DEF LastPiece
<1>4. EndedIn(mult, <<>>) = <<>> /\ CollectedIn(mult, <<>>) = {}
  BY <1>3, NothingEnded DEF EndedIn, CollectedIn
<1>5. TracesIn(mult, <<>>) = [n \in 1 .. Len(none) - 1 |-> Closed(Whole(mult, none[n]))]
  BY <1>1 DEF TracesIn
<1>6. 1 .. Len(none) - 1 = {} /\ [n \in {} |-> Closed(Whole(mult, none[n]))] = <<>>
  BY <1>2
<1> QED BY <1>4, <1>5, <1>6

\* What the lines of a trace are made of, whatever line comes next.
LEMMA LinesOfTrace ==
  ASSUME NEW mult \in BOOLEAN, NEW lines \in Seq(Lines)
  PROVE  /\ Ended(mult, lines) \in Seq(PlainEvents) /\ Collected(mult, lines) \subseteq Props
         /\ Whole(mult, lines) \in Seq(PlainEvents) /\ Closed(Whole(mult, lines)) \in AnyTrace
<1>1. NoMatch \in Lines \ {TraceSep}
  BY KindsOfLines DEF Lines, NoMatch, TraceSep
<1>2. /\ Ended(mult, lines) \in Seq(PlainEvents) /\ Collected(mult, lines) \subseteq Props
      /\ Whole(mult, lines) \in Seq(PlainEvents)
  BY <1>1, LineOfTrace
<1> QED BY <1>2 DEF AnyTrace

\* The traces are traces, and one more line of the log ends one or belongs to the last.
LEMMA LineOfLog ==
  ASSUME NEW mult \in BOOLEAN, NEW lines \in Seq(Lines), NEW l \in Lines
  PROVE  /\ TracesIn(mult, lines) \in Seq(AnyTrace)
         /\ LastPiece(lines) \in Seq(Lines)
         /\ l = TraceSep => /\ TracesIn(mult, Append(lines, l)) = Append(TracesIn(mult, lines), Closed(WholeIn(mult, lines)))
                            /\ EndedIn(mult, Append(lines, l)) = <<>> /\ CollectedIn(mult, Append(lines, l)) = {}
         /\ l # TraceSep => /\ TracesIn(mult, Append(lines, l)) = TracesIn(mult, lines)
                            /\ LastPiece(Append(lines, l)) = Append(LastPiece(lines), l)
<1> DEFINE seps == {TraceSep}
           next == Append(lines, l)
           P == Pieces(lines, seps)
           Q == Pieces(next, seps)
           E(x) == Closed(Whole(mult, x))
           O == TracesIn(mult, lines)
           R == TracesIn(mult, next)
<1>1. OneMoreLine(Lines, P, Q, l, seps)
  BY PiecesAppend
<1>2. \A x \in Seq(Lines) : E(x) \in AnyTrace
  BY LinesOfTrace
<1>3. O = [n \in 1 .. Len(P) - 1 |-> E(P[n])] /\ R = [n \in 1 .. Len(Q) - 1 |-> E(Q[n])]
  BY DEF TracesIn
<1>4. LastPiece(lines) = Last(P) /\ LastPiece(next) = Last(Q)
  BY DEF LastPiece
<1>5. l = TraceSep <=> l \in seps
  OBVIOUS
<1> HIDE DEF P, Q, E, O, R, seps, next
<1>6. /\ P \in Seq(Seq(Lines)) /\ Len(P) \in Nat \ {0} /\ Last(P) = P[Len(P)] /\ Last(P) \in Seq(Lines)
      /\ Q \in Seq(Seq(Lines)) /\ Len(Q) \in Nat \ {0}
  BY <1>1 DEF OneMoreLine
<1>7. ASSUME NEW p \in Seq(Seq(Lines)), Len(p) \in Nat \ {0}, NEW o, o = [n \in 1 .. Len(p) - 1 |-> E(p[n])]
      PROVE  o \in Seq(AnyTrace) /\ Len(o) = Len(p) - 1 /\ \A n \in 1 .. Len(p) - 1 : o[n] = E(p[n])
  <2> DEFINE m == Len(p) - 1
  <2>1. m \in Nat /\ \A n \in 1 .. m : p[n] \in Seq(Lines)
    BY <1>7
  <2> HIDE DEF m
  <2>2. o = [n \in 1 .. m |-> E(p[n])]
    BY <1>7 DEF m
  <2>3. \A n \in 1 .. m : E(p[n]) \in AnyTrace
    BY <1>2, <2>1
  <2>4. o \in Seq(AnyTrace) /\ Len(o) = m
    BY <2>1, <2>2, <2>3
  <2> QED BY <2>2, <2>4 DEF m
<1>8. O \in Seq(AnyTrace) /\ Len(O) = Len(P) - 1 /\ \A n \in 1 .. Len(P) - 1 : O[n] = E(P[n])
  BY <1>3, <1>6, <1>7
<1>9. R \in Seq(AnyTrace) /\ Len(R) = Len(Q) - 1 /\ \A n \in 1 .. Len(Q) - 1 : R[n] = E(Q[n])
  BY <1>3, <1>6, <1>7
<1>10. CASE l \in seps
  <2>1. Len(Q) = Len(P) + 1 /\ Last(Q) = <<>> /\ \A n \in 1 .. Len(P) : Q[n] = P[n]
    BY <1>1, <1>10 DEF OneMoreLine
  <2>2. Len(R) = Len(O) + 1 /\ Len(O) + 1 = Len(P) /\ Len(Q) - 1 = Len(P) /\ Len(P) \in 1 .. Len(P)
    BY <1>6, <1>8, <1>9, <2>1
  <2>3. R[Len(O) + 1] = E(Last(P))
    BY <1>6, <1>9, <2>1, <2>2
  <2>4. \A n \in 1 .. Len(O) : R[n] = O[n]
    <3>1. Len(P) \in Nat \ {0} /\ Len(O) = Len(P) - 1 /\ Len(Q) = Len(P) + 1
      BY <1>6, <1>8, <2>1
    <3>2. \A n \in 1 .. Len(O) : n \in 1 .. Len(P) /\ n \in 1 .. Len(P) - 1 /\ n \in 1 .. Len(Q) - 1
      BY <3>1
    <3> QED BY <1>8, <1>9, <2>1, <3>2
  <2>5. R = Append(O, E(Last(P)))
    BY <1>2, <1>6, <1>8, <1>9, <2>2, <2>3, <2>4, AppendedSequence
  <2>6. EndedIn(mult, next) = <<>> /\ CollectedIn(mult, next) = {}
    BY <1>4, <2>1, NothingEnded DEF EndedIn, CollectedIn
  <2> QED BY <1>4, <1>5, <1>6, <1>8, <1>10, <2>5, <2>6 DEF O, R, E, WholeIn, next
<1>11. CASE l \notin seps
  <2>1. Len(Q) = Len(P) /\ Last(Q) = Append(Last(P), l) /\ \A n \in 1 .. Len(P) - 1 : Q[n] = P[n]
    BY <1>1, <1>11 DEF OneMoreLine
  <2>2. R = O
    BY <1>3, <2>1
  <2> QED BY <1>4, <1>5, <1>6, <1>8, <1>11, <2>1, <2>2 DEF O, R, next
<1> QED BY <1>10, <1>11

-----------------------------------------------------------------------------
(***************************************************************************)
(* The three parsers at once.                                              *)
(***************************************************************************)
Begun(traces, rest) == IF rest = NoNode THEN Len(traces) ELSE Len(traces) + 1

Built(l, m, t, traces, rest) ==
  /\ LinearIs(l, traces, rest) /\ MapIs(m, traces, rest) /\ TreeIs(t, traces, rest)
  /\ t.trace_id \in 0 .. Begun(traces, rest)

\* An id is given to a trace when it is begun, to none after the tree has failed.
LEMMA TraceIdsAreCounted ==
  ASSUME NEW s, NEW traces \in Seq(AnyTrace), NEW rest \in Seq(PlainEvents), TreeIs(s, traces, rest),
         s.trace_id \in 0 .. Begun(traces, rest)
  PROVE  /\ \A e \in PlainEvents : TreeAdd(s, e).trace_id \in 0 .. Begun(traces, Append(rest, e))
         /\ TreeAdd(s, TerminalEvent).trace_id \in 0 .. Begun(Append(traces, Closed(rest)), <<>>)
<1>1. Len(traces) \in Nat /\ Closed(rest) \in AnyTrace
  BY DEF AnyTrace
<1>2. Len(Append(traces, Closed(rest))) = Len(traces) + 1
  BY <1>1
<1>3. Begun(Append(traces, Closed(rest)), <<>>) = Len(traces) + 1
  BY <1>2 DEF Begun, NoNode
<1>4. ASSUME NEW e \in PlainEvents PROVE Begun(traces, Append(rest, e)) = Len(traces) + 1
  <2>1. Append(rest, e) # <<>>
    OBVIOUS
  <2> QED BY <2>1 DEF Begun, NoNode
<1>5. s.trace_id \in 0 .. Len(traces) + 1
  BY <1>1 DEF Begun
<1>6. ASSUME NEW e, NEW ts, NEW r, TreeIs(TreeAdd(s, e), ts, r), Begun(ts, r) = Len(traces) + 1
      PROVE  TreeAdd(s, e).trace_id \in 0 .. Len(traces) + 1
  <2>1. CASE ~ TreeAdd(s, e).null_dereferenced
    BY <1>1, <1>6, <2>1 DEF TreeIs, Begun
  <2>2. CASE s.null_dereferenced
    BY <1>5, <2>2 DEF TreeAdd
  <2>3. CASE TreeAdd(s, e).null_dereferenced /\ ~ s.null_dereferenced
    <3>1. e.terminal /\ s.temp_trace = NoNode
      BY <2>3, VisitedTree DEF TreeIs
    <3>2. TreeAdd(s, e) = [s EXCEPT !.null_dereferenced = TRUE]
      BY <2>3, <3>1 DEF TreeAdd
    <3> QED BY <1>5, <3>2 DEF TreeIs, TreeFields
  <2> QED BY <2>1, <2>2, <2>3
<1>7. \A e \in PlainEvents : TreeAdd(s, e).trace_id \in 0 .. Begun(traces, Append(rest, e))
  BY <1>4, <1>6, TreeAdds
<1>8. TreeAdd(s, TerminalEvent).trace_id \in 0 .. Begun(Append(traces, Closed(rest)), <<>>)
  BY <1>3, <1>6, TreeAdds
<1> QED BY <1>7, <1>8

\* One event, to each of the parsers.
LEMMA BuiltAdds ==
  ASSUME NEW l, NEW m, NEW t, NEW traces \in Seq(AnyTrace), NEW rest \in Seq(PlainEvents),
         Built(l, m, t, traces, rest)
  PROVE  /\ \A e \in PlainEvents :
              Built(LinearAdd(l, e), MapAdd(m, e), TreeAdd(t, e), traces, Append(rest, e))
         /\ Built(LinearAdd(l, TerminalEvent), MapAdd(m, TerminalEvent), TreeAdd(t, TerminalEvent),
                  Append(traces, Closed(rest)), <<>>)
BY LinearAdds, MapAdds, TreeAdds, TraceIdsAreCounted DEF Built

\* add_event: the event before, if there is one, and the event.
LEMMA BuiltAdded ==
  ASSUME NEW l, NEW m, NEW t, NEW traces \in Seq(AnyTrace), NEW rest \in Seq(PlainEvents),
         Built(l, m, t, traces, rest), NEW before \in SUBSET Names, NEW longer,
         longer = IF before = {} THEN rest ELSE Append(rest, Event(before))
  PROVE  /\ longer \in Seq(PlainEvents)
         /\ \A e \in PlainEvents :
              Built(Added(LinearAdd, l, before, e), Added(MapAdd, m, before, e), Added(TreeAdd, t, before, e),
                    traces, Append(longer, e))
         /\ Built(Added(LinearAdd, l, before, TerminalEvent), Added(MapAdd, m, before, TerminalEvent),
                  Added(TreeAdd, t, before, TerminalEvent), Append(traces, Closed(longer)), <<>>)
<1>1. Event(before) \in PlainEvents
  BY DEF PlainEvents
<1>2. longer \in Seq(PlainEvents)
  BY <1>1
<1>3. CASE before = {}
  BY <1>2, <1>3, BuiltAdds DEF Added
<1>4. CASE before # {}
  <2> DEFINE e == Event(before)
             l2 == LinearAdd(l, e)
             m2 == MapAdd(m, e)
             t2 == TreeAdd(t, e)
  <2>1. Built(l2, m2, t2, traces, longer)
    BY <1>1, <1>4, BuiltAdds
  <2>2. \A f : /\ Added(LinearAdd, l, before, f) = LinearAdd(l2, f) /\ Added(MapAdd, m, before, f) = MapAdd(m2, f)
               /\ Added(TreeAdd, t, before, f) = TreeAdd(t2, f)
    BY <1>4 DEF Added
  <2> HIDE DEF l2, m2, t2
  <2> QED BY <1>2, <2>1, <2>2, BuiltAdds
<1> QED BY <1>3, <1>4


-----------------------------------------------------------------------------
(***************************************************************************)
(* The inductive invariant: at every line, get_event has collected and the *)
(* parsers have built what the lines so far are.  At the end of the file   *)
(* the trace that was not closed is.                                       *)
(***************************************************************************)
LogOK == /\ mode \in Modes /\ status \in {"reading", "parsed", "exited"}
         /\ log \in Seq(Lines) /\ Len(log) <= MaxLines /\ ToSet(log) \subseteq LogLines
         /\ unique_props \subseteq Lines

GetEventOK ==
  LET mult == mode.parses_mult_prop
  IN /\ event = CollectedIn(mult, log)
     /\ last_terminal = (EndedIn(mult, log) = <<>>)
     /\ Len(TracesIn(mult, log)) + Len(EndedIn(mult, log)) <= Len(log)

GivenTraces ==
  LET mult == mode.parses_mult_prop
  IN IF status = "parsed" /\ ~ last_terminal
     THEN Append(TracesIn(mult, log), Closed(EndedIn(mult, log)))
     ELSE TracesIn(mult, log)

GivenRest == IF status = "parsed" THEN <<>> ELSE EndedIn(mode.parses_mult_prop, log)

BuiltOK == Built(linear, mapped, tree, GivenTraces, GivenRest)

IInv == LogOK /\ GetEventOK /\ BuiltOK


\* It holds before the first line.
LEMMA IInvInitially == Init => IInv
<1> SUFFICES ASSUME Init PROVE IInv
  OBVIOUS
<1>1. mode.parses_mult_prop \in BOOLEAN
  BY ModesAssumption DEF Init
<1>2. Len(log) = 0 /\ log \in Seq(Lines) /\ ToSet(log) = {}
  BY ToSetOfNothing DEF Init
<1>3. LogOK
  BY <1>2, MaxLinesAssumption DEF Init, LogOK
<1> DEFINE mult == mode.parses_mult_prop
<1>4. TracesIn(mult, log) = <<>> /\ EndedIn(mult, log) = <<>> /\ CollectedIn(mult, log) = {}
  BY <1>1, EmptyLog DEF Init
<1>5. GetEventOK
  <2>1. event = {} /\ last_terminal = TRUE
    BY DEF Init
  <2>2. Len(TracesIn(mult, log)) + Len(EndedIn(mult, log)) <= Len(log)
    <3>1. Len(<<>>) = 0
      OBVIOUS
    <3> QED BY <1>2, <1>4, <3>1
  <2> QED BY <1>4, <2>1, <2>2 DEF GetEventOK
<1>6. GivenTraces = <<>> /\ GivenRest = <<>>
  BY <1>4 DEF Init, GivenTraces, GivenRest
<1>7. DOMAIN <<>> = {} /\ Len(<<>>) = 0 /\ <<>> \in Seq(AnyTrace) /\ <<>> \in Seq(PlainEvents)
  OBVIOUS
<1>8. LinearIs(NewLinear, <<>>, <<>>)
  <2>1. ToBag(<<>>) = EmptyBag
    BY <1>7 DEF ToBag, Range, EmptyBag, SetToBag
  <2> QED BY <2>1 DEF LinearIs, NewLinear
<1>9. MapIs(NewMap, <<>>, <<>>)
  <2>1. MapOfRest(<<>>) = <<>>
    <3>1. {e.props : e \in {}} = {} /\ UNION {} = {}
      OBVIOUS
    <3> QED BY <3>1, ToSetOfNothing DEF MapOfRest
  <2> QED BY <1>7, <2>1 DEF MapIs, NewMap
<1>10. TreeIs(NewTree, <<>>, <<>>) /\ NewTree.trace_id \in 0 .. Begun(<<>>, <<>>)
  <2> DEFINE one == Append(<<>>, <<>>)
  <2>1. DOMAIN one = {1} /\ one[1] = <<>> /\ Len(one[1]) = 0
    OBVIOUS
  <2> HIDE DEF one
  <2>2. NodesAre(<<>>, one)
    BY <1>7, <2>1 DEF NodesAre
  <2> QED BY <1>7, <2>2 DEF TreeIs, NewTree, TreeFields, NoNode, Begun, one
<1>11. BuiltOK
  BY <1>6, <1>8, <1>9, <1>10 DEF Init, BuiltOK, Built
<1> QED BY <1>3, <1>5, <1>11 DEF IInv

\* What reading a line does to the log.
LEMMA LineRead ==
  ASSUME LogOK, NEW l, Read(l)
  PROVE  /\ l \in Lines /\ log' = Append(log, l) /\ status = "reading" /\ mode.parses_mult_prop \in BOOLEAN
         /\ log' \in Seq(Lines) /\ Len(log') <= MaxLines /\ Len(log') = Len(log) + 1 /\ Len(log) \in Nat
         /\ ToSet(log') \subseteq LogLines
<1>1. l \in Lines /\ log' = Append(log, l) /\ status = "reading" /\ mode.parses_mult_prop \in BOOLEAN
  BY LogLinesAssumption, ModesAssumption DEF LogOK, Read
<1>2. log \in Seq(Lines) /\ Len(log) < MaxLines
  BY DEF LogOK, Read
<1>3. log' \in Seq(Lines) /\ Len(log') = Len(log) + 1 /\ Len(log) \in Nat
  BY <1>1, <1>2
<1>4. ToSet(log') = ToSet(log) \cup {l}
  BY <1>1, <1>2, ToSetAppend
<1> QED BY <1>1, <1>2, <1>3, <1>4, MaxLinesAssumption DEF LogOK, Read

\* The parts of the log are what they should be.
LEMMA PartsOfLog ==
  ASSUME LogOK, NEW mult, mult = mode.parses_mult_prop
  PROVE  /\ mult \in BOOLEAN /\ TracesIn(mult, log) \in Seq(AnyTrace) /\ LastPiece(log) \in Seq(Lines)
         /\ EndedIn(mult, log) \in Seq(PlainEvents) /\ CollectedIn(mult, log) \subseteq Props
         /\ WholeIn(mult, log) \in Seq(PlainEvents)
<1>1. mult \in BOOLEAN /\ log \in Seq(Lines) /\ NoMatch \in Lines
  BY ModesAssumption DEF LogOK, Lines
<1>2. TracesIn(mult, log) \in Seq(AnyTrace) /\ LastPiece(log) \in Seq(Lines)
  BY <1>1, LineOfLog
<1> QED BY <1>1, <1>2, LinesOfTrace DEF EndedIn, CollectedIn, WholeIn

\* A trace separator keeps it.
LEMMA IInvTraceSep == IInv /\ ReadTraceSep => IInv'
<1> SUFFICES ASSUME IInv, ReadTraceSep PROVE IInv'
  OBVIOUS
<1> DEFINE mult   == mode.parses_mult_prop
           traces == TracesIn(mult, log)
           rest   == EndedIn(mult, log)
           whole  == WholeIn(mult, log)
<1>1. /\ LogOK /\ GetEventOK /\ BuiltOK /\ mode' = mode /\ status' = status
      /\ Read(TraceSep) /\ Return(TerminalEvent, event)
  BY DEF IInv, ReadTraceSep
<1>2. /\ TraceSep \in Lines /\ log' = Append(log, TraceSep) /\ status = "reading"
      /\ log' \in Seq(Lines) /\ Len(log') <= MaxLines /\ Len(log') = Len(log) + 1 /\ Len(log) \in Nat
      /\ ToSet(log') \subseteq LogLines
  BY <1>1, LineRead
<1>3. /\ mult \in BOOLEAN /\ traces \in Seq(AnyTrace) /\ rest \in Seq(PlainEvents) /\ whole \in Seq(PlainEvents)
      /\ CollectedIn(mult, log) \subseteq Props
  BY <1>1, PartsOfLog
<1>4. event = CollectedIn(mult, log) /\ Len(traces) + Len(rest) <= Len(log)
  BY <1>1 DEF GetEventOK
<1>5. /\ TracesIn(mult, log') = Append(traces, Closed(whole))
      /\ EndedIn(mult, log') = <<>> /\ CollectedIn(mult, log') = {}
  <2>1. log \in Seq(Lines)
    BY <1>1 DEF LogOK
  <2>2. /\ TracesIn(mult, Append(log, TraceSep)) = Append(traces, Closed(whole))
        /\ EndedIn(mult, Append(log, TraceSep)) = <<>> /\ CollectedIn(mult, Append(log, TraceSep)) = {}
    BY <1>2, <1>3, <2>1, LineOfLog
  <2> QED BY <1>2, <2>2
<1>6. LogOK'
  BY <1>1, <1>2, <1>3, <1>4, KindsOfLines DEF LogOK, Return, AddEvents, TerminalEvent
<1>7. GetEventOK'
  <2>1. event' = {} /\ last_terminal' = TRUE
    BY <1>1 DEF Return, TerminalEvent
  <2>2. Len(Append(traces, Closed(whole))) = Len(traces) + 1 /\ Len(traces) \in Nat /\ Len(rest) \in Nat
    BY <1>3
  <2>3. Len(<<>>) = 0
    OBVIOUS
  <2>4. Len(TracesIn(mult, log')) + Len(EndedIn(mult, log')) <= Len(log')
    BY <1>2, <1>4, <1>5, <2>2, <2>3
  <2> QED BY <1>1, <1>5, <2>1, <2>4 DEF GetEventOK
<1>8. BuiltOK'
  <2>1. Built(linear, mapped, tree, traces, rest)
    BY <1>1, <1>2 DEF BuiltOK, GivenTraces, GivenRest
  <2>2. whole = IF event = {} THEN rest ELSE Append(rest, Event(event))
    BY <1>4 DEF WholeIn, EndedIn, CollectedIn, Whole
  <2>3. event \in SUBSET Names
    BY <1>3, <1>4, KindsOfLines
  <2> HIDE DEF traces, rest, whole
  <2>4. Built(linear', mapped', tree', Append(traces, Closed(whole)), <<>>)
    BY <1>1, <1>3, <2>1, <2>2, <2>3, BuiltAdded DEF Return, AddEvents
  <2>5. GivenTraces' = Append(traces, Closed(whole)) /\ GivenRest' = <<>>
    BY <1>1, <1>2, <1>5 DEF GivenTraces, GivenRest
  <2> QED BY <2>4, <2>5 DEF BuiltOK
<1> QED BY <1>6, <1>7, <1>8 DEF IInv


\* Another line leaves the closed traces as they are and adds to the last piece.
LEMMA LineInTrace ==
  ASSUME LogOK, NEW l \in Lines \ {TraceSep}, NEW mult, mult = mode.parses_mult_prop,
         log' = Append(log, l)
  PROVE  /\ TracesIn(mult, log') = TracesIn(mult, log)
         /\ TakesLine(mult, l, EndedIn(mult, log), CollectedIn(mult, log),
                      EndedIn(mult, log'), CollectedIn(mult, log'))
<1> DEFINE lines == LastPiece(log)
           next  == LastPiece(log')
<1>1. mult \in BOOLEAN /\ lines \in Seq(Lines) /\ log \in Seq(Lines)
  BY PartsOfLog DEF LogOK
<1>2. TracesIn(mult, log') = TracesIn(mult, log) /\ next = Append(lines, l)
  <2>1. /\ TracesIn(mult, Append(log, l)) = TracesIn(mult, log)
        /\ LastPiece(Append(log, l)) = Append(LastPiece(log), l)
    BY <1>1, LineOfLog
  <2> QED BY <2>1
<1> HIDE DEF lines, next
<1>3. TakesLine(mult, l, Ended(mult, lines), Collected(mult, lines),
                Ended(mult, Append(lines, l)), Collected(mult, Append(lines, l)))
  BY <1>1, LineOfTrace
<1> QED BY <1>2, <1>3 DEF EndedIn, CollectedIn, lines, next

\* An event returned to parse keeps it, if it is the next of the log's.
LEMMA IInvReturn ==
  ASSUME IInv, NEW l \in Lines, Read(l), UNCHANGED <<mode, status>>, NEW e \in PlainEvents, Return(e, {}),
         NEW mult, mult = mode.parses_mult_prop,
         TracesIn(mult, log') = TracesIn(mult, log), CollectedIn(mult, log') = {},
         EndedIn(mult, log') = Append(EndedIn(mult, log), e)
  PROVE  IInv'
<1> DEFINE traces == TracesIn(mult, log)
           rest   == EndedIn(mult, log)
<1>1. LogOK /\ GetEventOK /\ BuiltOK /\ mode' = mode /\ status' = status
  BY DEF IInv
<1>2. /\ log' = Append(log, l) /\ status = "reading"
      /\ log' \in Seq(Lines) /\ Len(log') <= MaxLines /\ Len(log') = Len(log) + 1 /\ Len(log) \in Nat
      /\ ToSet(log') \subseteq LogLines
  BY <1>1, LineRead
<1>3. traces \in Seq(AnyTrace) /\ rest \in Seq(PlainEvents)
  BY <1>1, PartsOfLog
<1>4. e.props \subseteq Names /\ e.terminal = FALSE
  BY PlainEvent
<1>5. LogOK'
  BY <1>1, <1>2, <1>4, KindsOfLines DEF LogOK, Return, AddEvents
<1>6. GetEventOK'
  <2>1. event' = {} /\ last_terminal' = FALSE
    BY <1>4 DEF Return
  <2>2. Append(rest, e) # <<>> /\ Len(Append(rest, e)) = Len(rest) + 1 /\ Len(traces) \in Nat /\ Len(rest) \in Nat
    BY <1>3
  <2>3. Len(traces) + Len(rest) <= Len(log)
    BY <1>1 DEF GetEventOK
  <2>4. Len(TracesIn(mult, log')) + Len(EndedIn(mult, log')) <= Len(log')
    BY <1>2, <2>2, <2>3
  <2> QED BY <1>1, <2>1, <2>2, <2>4 DEF GetEventOK
<1>7. BuiltOK'
  <2>1. Built(linear, mapped, tree, traces, rest)
    BY <1>1, <1>2 DEF BuiltOK, GivenTraces, GivenRest
  <2> HIDE DEF traces, rest
  <2>2. Built(linear', mapped', tree', traces, Append(rest, e))
    <3>1. rest = IF {} = {} THEN rest ELSE Append(rest, Event({}))
      OBVIOUS
    <3>2. Built(Added(LinearAdd, linear, {}, e), Added(MapAdd, mapped, {}, e), Added(TreeAdd, tree, {}, e),
                traces, Append(rest, e))
      BY <1>3, <2>1, <3>1, BuiltAdded
    <3> QED BY <3>2 DEF Return, AddEvents
  <2>3. GivenTraces' = traces /\ GivenRest' = Append(rest, e)
    BY <1>1, <1>2 DEF GivenTraces, GivenRest, traces, rest
  <2> QED BY <2>2, <2>3 DEF BuiltOK
<1> QED BY <1>5, <1>6, <1>7 DEF IInv

\* A line that returns nothing keeps it, if nothing is built of it yet.
LEMMA IInvCollect ==
  ASSUME IInv, NEW l \in Lines, Read(l), mode' = mode, status' \in {"reading", "exited"},
         UNCHANGED <<last_terminal, parsers>>, NEW mult, mult = mode.parses_mult_prop,
         TracesIn(mult, log') = TracesIn(mult, log), EndedIn(mult, log') = EndedIn(mult, log),
         event' = CollectedIn(mult, log')
  PROVE  IInv'
<1>1. LogOK /\ GetEventOK /\ BuiltOK
  BY DEF IInv
<1>2. /\ log' = Append(log, l) /\ status = "reading"
      /\ log' \in Seq(Lines) /\ Len(log') <= MaxLines /\ Len(log') = Len(log) + 1 /\ Len(log) \in Nat
      /\ ToSet(log') \subseteq LogLines
  BY <1>1, LineRead
<1>3. UNCHANGED <<last_terminal, unique_props, linear, mapped, tree>>
  BY DEF parsers
<1>4. LogOK'
  BY <1>1, <1>2, <1>3 DEF LogOK
<1>5. GetEventOK'
  <2>1. Len(TracesIn(mult, log)) \in Nat /\ Len(EndedIn(mult, log)) \in Nat
    BY <1>1, PartsOfLog
  <2>2. Len(TracesIn(mult, log')) + Len(EndedIn(mult, log')) <= Len(log')
    BY <1>1, <1>2, <2>1 DEF GetEventOK
  <2> QED BY <1>1, <1>3, <2>2 DEF GetEventOK
<1>6. BuiltOK'
  <2>1. status # "parsed" /\ status' # "parsed"
    BY <1>2
  <2>2. GivenTraces' = GivenTraces /\ GivenRest' = GivenRest
    BY <2>1 DEF GivenTraces, GivenRest
  <2> QED BY <1>1, <1>3, <2>2 DEF BuiltOK
<1> QED BY <1>4, <1>5, <1>6 DEF IInv

\* An event separator.
LEMMA IInvEventSep == IInv /\ ReadEventSep => IInv'
<1> SUFFICES ASSUME IInv, ReadEventSep PROVE IInv'
  OBVIOUS
<1> DEFINE mult == mode.parses_mult_prop
<1>1. LogOK /\ GetEventOK /\ mult /\ UNCHANGED <<mode, status>> /\ Return(Event(event), {})
  BY DEF IInv, ReadEventSep
<1>2. PICK l \in Seps : Read(l)
  BY DEF ReadEventSep, Seps
<1>3. l \in Lines \ {TraceSep}
  BY <1>2, KindsOfLines
<1>4. log' = Append(log, l)
  BY <1>2 DEF Read
<1>5. event = CollectedIn(mult, log) /\ CollectedIn(mult, log) \subseteq Props
  BY <1>1, PartsOfLog DEF GetEventOK
<1>6. Event(event) \in PlainEvents
  BY <1>5, KindsOfLines DEF PlainEvents
<1>7. /\ TracesIn(mult, log') = TracesIn(mult, log) /\ CollectedIn(mult, log') = {}
      /\ EndedIn(mult, log') = Append(EndedIn(mult, log), Event(event))
  BY <1>1, <1>2, <1>3, <1>4, <1>5, LineInTrace DEF TakesLine
<1> QED BY <1>1, <1>2, <1>3, <1>6, <1>7, IInvReturn

\* A proposition: of the event that is being collected, or an event.
LEMMA IInvProp == IInv /\ ReadProp => IInv'
<1> SUFFICES ASSUME IInv, ReadProp PROVE IInv'
  OBVIOUS
<1> DEFINE mult == mode.parses_mult_prop
<1>1. LogOK /\ GetEventOK /\ UNCHANGED <<mode, status>>
  BY DEF IInv, ReadProp
<1>2. PICK l \in Lines :
        /\ IsProp(l) /\ Read(l)
        /\ IF mult THEN event' = event \cup {l} /\ UNCHANGED <<last_terminal, parsers>>
           ELSE Return(Event({l}), {})
  BY DEF ReadProp
<1>3. l \in Names /\ (mult => l \in Props) /\ l \in Lines \ {TraceSep}
  BY <1>2, KindsOfLines DEF IsProp, Names, Matched
<1>4. log' = Append(log, l) /\ status = "reading"
  BY <1>2 DEF Read
<1>5. CASE mult
  <2>1. /\ TracesIn(mult, log') = TracesIn(mult, log) /\ EndedIn(mult, log') = EndedIn(mult, log)
        /\ CollectedIn(mult, log') = CollectedIn(mult, log) \cup {l}
    BY <1>1, <1>3, <1>4, <1>5, LineInTrace DEF TakesLine
  <2>2. event' = CollectedIn(mult, log')
    BY <1>1, <1>2, <1>5, <2>1 DEF GetEventOK
  <2>3. status' \in {"reading", "exited"} /\ UNCHANGED <<last_terminal, parsers>> /\ mode' = mode
    BY <1>1, <1>2, <1>4, <1>5
  <2> QED BY <1>2, <2>1, <2>2, <2>3, IInvCollect
<1>6. CASE ~ mult
  <2>1. /\ TracesIn(mult, log') = TracesIn(mult, log) /\ CollectedIn(mult, log') = {}
        /\ EndedIn(mult, log') = Append(EndedIn(mult, log), Event({l}))
    BY <1>1, <1>3, <1>4, <1>6, LineInTrace DEF TakesLine
  <2>2. Event({l}) \in PlainEvents
    BY <1>3 DEF PlainEvents
  <2>3. Return(Event({l}), {})
    BY <1>2, <1>6
  <2> QED BY <1>1, <1>2, <2>1, <2>2, <2>3, IInvReturn
<1> QED BY <1>5, <1>6

\* A line that no expression matches.
LEMMA IInvNoMatch == IInv /\ ReadNoMatch => IInv'
<1> SUFFICES ASSUME IInv, ReadNoMatch PROVE IInv'
  OBVIOUS
<1> DEFINE mult == mode.parses_mult_prop
<1>1. LogOK /\ GetEventOK /\ Read(NoMatch) /\ UNCHANGED <<mode, event, last_terminal, parsers>>
  BY DEF IInv, ReadNoMatch
<1>2. NoMatch \in Lines \ {TraceSep}
  BY DEF Lines, NoMatch, TraceSep
<1>3. log' = Append(log, NoMatch) /\ status = "reading"
  BY <1>1 DEF Read
<1>4. status' \in {"reading", "exited"}
  BY <1>3 DEF ReadNoMatch
<1>5. /\ TracesIn(mult, log') = TracesIn(mult, log) /\ EndedIn(mult, log') = EndedIn(mult, log)
      /\ CollectedIn(mult, log') = CollectedIn(mult, log)
  BY <1>1, <1>2, <1>3, LineInTrace DEF TakesLine
<1>6. event' = CollectedIn(mult, log')
  BY <1>1, <1>5 DEF GetEventOK
<1> QED BY <1>1, <1>2, <1>4, <1>5, <1>6, IInvCollect

\* The end of the file closes the trace that is not closed.
LEMMA IInvEndOfFile == IInv /\ ReadEndOfFile => IInv'
<1> SUFFICES ASSUME IInv, ReadEndOfFile PROVE IInv'
  OBVIOUS
<1> DEFINE mult   == mode.parses_mult_prop
           traces == TracesIn(mult, log)
           rest   == EndedIn(mult, log)
<1>1. /\ LogOK /\ GetEventOK /\ BuiltOK /\ status = "reading" /\ status' = "parsed"
      /\ UNCHANGED <<mode, log, event, last_terminal>>
  BY DEF IInv, ReadEndOfFile
<1>2. traces \in Seq(AnyTrace) /\ rest \in Seq(PlainEvents)
  BY <1>1, PartsOfLog
<1>3. unique_props' = unique_props
  BY DEF ReadEndOfFile, AddEvents, parsers, TerminalEvent
<1>4. LogOK' /\ GetEventOK'
  BY <1>1, <1>3 DEF LogOK, GetEventOK
<1>5. Built(linear, mapped, tree, traces, rest) /\ last_terminal = (rest = <<>>)
  BY <1>1 DEF BuiltOK, GetEventOK, GivenTraces, GivenRest
<1>6. BuiltOK'
  <2>1. CASE last_terminal
    <3>1. GivenTraces' = traces /\ GivenRest' = rest
      BY <1>1, <1>5, <2>1 DEF GivenTraces, GivenRest
    <3>2. UNCHANGED <<linear, mapped, tree>>
      BY <2>1 DEF ReadEndOfFile, parsers
    <3> QED BY <1>5, <3>1, <3>2 DEF BuiltOK
  <2>2. CASE ~ last_terminal
    <3>1. GivenTraces' = Append(traces, Closed(rest)) /\ GivenRest' = <<>>
      BY <1>1, <2>2 DEF GivenTraces, GivenRest
    <3>2. AddEvents({}, TerminalEvent)
      BY <2>2 DEF ReadEndOfFile
    <3> HIDE DEF traces, rest
    <3>3. rest = IF {} = {} THEN rest ELSE Append(rest, Event({}))
      OBVIOUS
    <3>4. Built(Added(LinearAdd, linear, {}, TerminalEvent), Added(MapAdd, mapped, {}, TerminalEvent),
                Added(TreeAdd, tree, {}, TerminalEvent), Append(traces, Closed(rest)), <<>>)
      BY <1>2, <1>5, <3>3, BuiltAdded
    <3> QED BY <3>1, <3>2, <3>4 DEF BuiltOK, AddEvents
  <2> QED BY <2>1, <2>2
<1> QED BY <1>4, <1>6 DEF IInv

\* Every step keeps it.
LEMMA IInvKept == IInv /\ [Next]_vars => IInv'
<1> SUFFICES ASSUME IInv, [Next]_vars PROVE IInv'
  OBVIOUS
<1>1. CASE UNCHANGED vars
  BY <1>1 DEF vars, parsers, IInv, LogOK, GetEventOK, BuiltOK, GivenTraces, GivenRest
<1> QED BY <1>1, IInvTraceSep, IInvEventSep, IInvProp, IInvNoMatch, IInvEndOfFile DEF Next

\* The inductive invariant is one.
THEOREM ParserInvariant == Spec => []IInv
BY IInvInitially, IInvKept, PTL DEF Spec


-----------------------------------------------------------------------------
(***************************************************************************)
(* What the invariant says of the program.                                 *)
(***************************************************************************)

\* The traces that have been given are traces.
LEMMA GivenAreTraces ==
  ASSUME IInv
  PROVE  GivenTraces \in Seq(AnyTrace) /\ GivenRest \in Seq(PlainEvents)
<1> DEFINE mult   == mode.parses_mult_prop
           traces == TracesIn(mult, log)
           rest   == EndedIn(mult, log)
<1>1. traces \in Seq(AnyTrace) /\ rest \in Seq(PlainEvents)
  BY PartsOfLog DEF IInv
<1>2. Closed(rest) \in AnyTrace
  BY <1>1 DEF AnyTrace
<1>3. Append(traces, Closed(rest)) \in Seq(AnyTrace)
  BY <1>1, <1>2
<1>4. GivenTraces = traces \/ GivenTraces = Append(traces, Closed(rest))
  BY DEF GivenTraces
<1>5. GivenRest = rest \/ GivenRest = <<>>
  BY DEF GivenRest
<1>6. <<>> \in Seq(PlainEvents)
  OBVIOUS
<1> HIDE DEF traces, rest
<1> QED BY <1>1, <1>3, <1>4, <1>5, <1>6

\* The bag of a sequence's elements is a bag.
LEMMA ToBagIsABag ==
  ASSUME NEW T, NEW s \in Seq(T)
  PROVE  IsABag(ToBag(s))
<1> DEFINE At(y) == {i \in DOMAIN s : s[i] = y}
           R     == {s[i] : i \in DOMAIN s}
<1>1. DOMAIN s = 1 .. Len(s) /\ Len(s) \in Nat /\ IsFiniteSet(1 .. Len(s))
  BY FS_Interval
<1>2. ASSUME NEW y \in R PROVE Cardinality(At(y)) \in {n \in Nat : n > 0}
  <2>1. At(y) # {} /\ At(y) \subseteq 1 .. Len(s)
    BY <1>1
  <2>2. IsFiniteSet(At(y))
    BY <1>1, <2>1, FS_Subset
  <2> HIDE DEF At
  <2> QED BY <2>1, <2>2, FS_CardinalityType, FS_EmptySet
<1>3. ToBag(s) = [y \in R |-> Cardinality(At(y))]
  BY DEF ToBag, Range
<1> HIDE DEF At, R
<1> QED BY <1>2, <1>3 DEF IsABag

\* The invariant implies the type of the variables.
LEMMA IInvTypes == IInv => TypeOK
<1> SUFFICES ASSUME IInv PROVE TypeOK
  OBVIOUS
<1> DEFINE mult   == mode.parses_mult_prop
           traces == TracesIn(mult, log)
           rest   == EndedIn(mult, log)
<1>1. LogOK /\ GetEventOK /\ BuiltOK
  BY DEF IInv
<1>2. /\ traces \in Seq(AnyTrace) /\ rest \in Seq(PlainEvents) /\ CollectedIn(mult, log) \subseteq Props
      /\ Len(traces) \in Nat /\ Len(rest) \in Nat /\ Len(log) \in Nat
  BY <1>1, PartsOfLog DEF LogOK
<1>3. event \subseteq Props /\ last_terminal = (rest = <<>>) /\ Len(traces) + Len(rest) <= MaxLines
  BY <1>1, <1>2, MaxLinesAssumption DEF GetEventOK, LogOK
<1>4. last_terminal \in BOOLEAN
  BY <1>3
<1>5. IsABag(linear.vector_trace_set)
  <2>1. linear.vector_trace_set = ToBag(GivenTraces)
    BY <1>1 DEF BuiltOK, Built, LinearIs
  <2> QED BY <2>1, GivenAreTraces, ToBagIsABag
<1>6. Len(GivenRest) <= MaxLines /\ Len(GivenRest) \in Nat
  <2>1. Len(<<>>) = 0
    OBVIOUS
  <2> QED BY <1>2, <1>3, <2>1, MaxLinesAssumption DEF GivenRest
<1>7. mapped.pos_count \in 0 .. MaxLines
  <2>1. mapped.pos_count = Len(GivenRest)
    BY <1>1 DEF BuiltOK, Built, MapIs
  <2> QED BY <1>6, <2>1, MaxLinesAssumption
<1>8. Begun(GivenTraces, GivenRest) <= MaxLines /\ Begun(GivenTraces, GivenRest) \in Nat
  <2>1. rest # <<>> => Len(rest) > 0
    BY <1>2
  <2>2. Len(Append(traces, Closed(rest))) = Len(traces) + 1
    BY <1>2
  <2> HIDE DEF traces, rest
  <2>3. CASE status = "parsed" /\ ~ last_terminal
    <3>1. GivenTraces = Append(traces, Closed(rest)) /\ GivenRest = <<>>
      BY <2>3 DEF GivenTraces, GivenRest, traces, rest
    <3>2. Begun(GivenTraces, GivenRest) = Len(traces) + 1
      BY <2>2, <3>1 DEF Begun, NoNode
    <3>3. rest # <<>>
      BY <1>3, <2>3
    <3> QED BY <1>2, <1>3, <2>1, <3>2, <3>3, MaxLinesAssumption
  <2>4. CASE ~ (status = "parsed" /\ ~ last_terminal)
    <3>1. GivenTraces = traces /\ (GivenRest = rest \/ GivenRest = <<>>)
      BY <2>4 DEF GivenTraces, GivenRest, traces, rest
    <3>2. Begun(traces, rest) <= MaxLines /\ Begun(traces, rest) \in Nat
      BY <1>2, <1>3, <2>1, MaxLinesAssumption DEF Begun, NoNode
    <3>3. Begun(traces, <<>>) <= MaxLines /\ Begun(traces, <<>>) \in Nat
      BY <1>2, <1>3, MaxLinesAssumption DEF Begun, NoNode
    <3> QED BY <3>1, <3>2, <3>3
  <2> QED BY <2>3, <2>4
<1>9. tree.trace_id \in 0 .. MaxLines
  <2>1. tree.trace_id \in 0 .. Begun(GivenTraces, GivenRest)
    BY <1>1 DEF BuiltOK, Built
  <2> QED BY <1>8, <2>1, MaxLinesAssumption
<1> QED BY <1>1, <1>3, <1>4, <1>5, <1>7, <1>9 DEF TypeOK, LogOK

\* The maps are those of the traces.
LEMMA IInvMaps == IInv => MapsAreTheTraces
<1> SUFFICES ASSUME IInv PROVE MapsAreTheTraces
  OBVIOUS
<1>1. LinearIs(linear, GivenTraces, GivenRest) /\ MapIs(mapped, GivenTraces, GivenRest)
  BY DEF IInv, BuiltOK, Built
<1> QED BY <1>1, GivenAreTraces, MapsOfTheTraces DEF MapsAreTheTraces

\* Types: get_event collects propositions, the counters of the parsers stay below
\* the number of lines, and what the linear parser keeps is a multiset.
THEOREM ParserTypes == Spec => []TypeOK
BY ParserInvariant, IInvTypes, PTL

\* The map parser (map_parser::add_event) keeps the traces the linear parser keeps,
\* each as the map of its positions, and the map of no two of them is the same.
THEOREM MapsOfTheLog == Spec => []MapsAreTheTraces
BY ParserInvariant, IInvMaps, PTL


-----------------------------------------------------------------------------
\* No line is in the set, if there are no positions of such lines.
LEMMA WhereIsEmpty ==
  ASSUME NEW lines \in Seq(Lines), NEW S
  PROVE  /\ Where(lines, S) = <<>> <=> ToSet(lines) \cap S = {}
         /\ Where(lines, S) \in Seq(1 .. Len(lines))
<1> DEFINE at == Where(lines, S)
<1>1. at \in Seq(1 .. Len(lines)) /\ ToSet(at) = {n \in DOMAIN lines : lines[n] \in S}
  <2>1. NoMatch \in Lines
    BY DEF Lines
  <2> QED BY <2>1, WhereAppend
<1> HIDE DEF at
<1>2. at = <<>> <=> ToSet(at) = {}
  BY <1>1, NothingIn, ToSetOfNothing
<1>3. {n \in DOMAIN lines : lines[n] \in S} = {} <=> ToSet(lines) \cap S = {}
  BY DEF ToSet
<1> QED BY <1>1, <1>2, <1>3 DEF at

\* A trace without a proposition and without an event separator has no event.
LEMMA WholeIsEmpty ==
  ASSUME NEW mult \in BOOLEAN, NEW lines \in Seq(Lines)
  PROVE  Whole(mult, lines) = <<>> <=> ToSet(lines) \cap Names = {}
<1>1. /\ Ended(mult, lines) \in Seq(PlainEvents)
      /\ Whole(mult, lines) = <<>> <=> Ended(mult, lines) = <<>> /\ Collected(mult, lines) = {}
  <2>1. Ended(mult, lines) \in Seq(PlainEvents)
    BY LinesOfTrace
  <2>2. Append(Ended(mult, lines), Event(Collected(mult, lines))) # <<>>
    BY <2>1
  <2> QED BY <2>1, <2>2 DEF Whole
<1>2. CASE mult = TRUE
  <2> DEFINE at == Where(lines, Seps)
             P  == Pieces(lines, Seps)
  <2>1. at = <<>> <=> ToSet(lines) \cap Seps = {}
    BY WhereIsEmpty
  <2>2. at \in Seq(1 .. Len(lines))
    BY WhereIsEmpty
  <2>3. Len(P) = Len(at) + 1 /\ P[1] = SubSeq(lines, PieceStart(at, 1), PieceEnd(at, Len(lines), 1))
    <3>1. /\ Pieces(lines, Seps) \in Seq(Seq(Lines)) /\ Len(Pieces(lines, Seps)) = Len(at) + 1
          /\ \A i \in 1 .. Len(at) + 1 :
               Pieces(lines, Seps)[i] = SubSeq(lines, PieceStart(at, i), PieceEnd(at, Len(lines), i))
      BY PiecesAre
    <3>2. 1 \in 1 .. Len(at) + 1
      BY <2>2
    <3> QED BY <3>1, <3>2
  <2>4. Ended(mult, lines) = [n \in 1 .. Len(P) - 1 |-> Event(PropsIn(P[n]))] /\ Collected(mult, lines) = PropsIn(Last(P))
    BY <1>2 DEF Ended, Collected
  <2> HIDE DEF at, P
  <2>5. Len(at) \in Nat /\ (at = <<>> <=> Len(at) = 0)
    BY <2>2
  <2>6. Ended(mult, lines) = <<>> <=> at = <<>>
    <3> DEFINE m == Len(P) - 1
               o == Ended(mult, lines)
    <3>1. m \in Nat /\ m = Len(at)
      BY <2>3, <2>5
    <3> HIDE DEF m, o
    <3>2. o = [n \in 1 .. m |-> Event(PropsIn(P[n]))]
      BY <2>4 DEF m, o
    <3>3. DOMAIN o = 1 .. m
      BY <3>2
    <3>4. o \in Seq(PlainEvents)
      BY <1>1 DEF o
    <3>5. Len(o) = m
      BY <3>1, <3>3, <3>4
    <3> QED BY <2>5, <3>1, <3>4, <3>5 DEF o
  <2>7. at = <<>> => Collected(mult, lines) = ToSet(lines) \cap Props
    <3> SUFFICES ASSUME at = <<>> PROVE Collected(mult, lines) = ToSet(lines) \cap Props
      OBVIOUS
    <3>1. Len(P) = 1 /\ PieceStart(at, 1) = 1 /\ PieceEnd(at, Len(lines), 1) = Len(lines)
      BY <2>3, <2>5 DEF PieceStart, PieceEnd
    <3>2. SubSeq(lines, 1, Len(lines)) = lines
      OBVIOUS
    <3>3. Last(P) = lines
      BY <2>3, <3>1, <3>2 DEF Last
    <3> QED BY <2>4, <3>3, KindsOfLines DEF PropsIn
  <2> QED BY <1>1, <2>1, <2>6, <2>7, KindsOfLines
<1>3. CASE mult = FALSE
  <2> DEFINE at == Where(lines, Names)
             o  == Ended(mult, lines)
  <2>1. (at = <<>> <=> ToSet(lines) \cap Names = {}) /\ at \in Seq(1 .. Len(lines))
    BY WhereIsEmpty
  <2>2. DOMAIN o = DOMAIN at
    BY <1>3 DEF Ended, SinglePropEvents, Names
  <2>3. o \in Seq(PlainEvents) /\ Collected(mult, lines) = {}
    BY <1>1, <1>3 DEF Collected
  <2> HIDE DEF at, o
  <2>4. o = <<>> <=> at = <<>>
    <3>1. DOMAIN at = 1 .. Len(at) /\ Len(at) \in Nat
      BY <2>1
    <3>2. DOMAIN o = 1 .. Len(at)
      BY <2>2, <3>1
    <3>3. Len(o) = Len(at)
      BY <2>3, <3>1, <3>2
    <3> QED BY <2>1, <2>3, <3>3
  <2> QED BY <1>1, <2>1, <2>3, <2>4 DEF o
<1> QED BY <1>2, <1>3

\* The tree fails on the traces that have no event.
LEMMA IInvTreeFails == IInv => TreeFailsOnEmptyTraces
<1> SUFFICES ASSUME IInv PROVE TreeFailsOnEmptyTraces
  OBVIOUS
<1> DEFINE mult   == mode.parses_mult_prop
           traces == TracesIn(mult, log)
           rest   == EndedIn(mult, log)
           P      == Pieces(log, {TraceSep})
<1>1. LogOK /\ GetEventOK /\ log \in Seq(Lines) /\ NoMatch \in Lines
  BY DEF IInv, LogOK, Lines
<1>2. /\ mult \in BOOLEAN /\ traces \in Seq(AnyTrace) /\ rest \in Seq(PlainEvents)
  BY <1>1, PartsOfLog
<1>3. tree.null_dereferenced = \E i \in DOMAIN GivenTraces : GivenTraces[i] = Closed(<<>>)
  BY DEF IInv, BuiltOK, Built, TreeIs
<1>4. ASSUME NEW es \in Seq(PlainEvents) PROVE Closed(es) = Closed(<<>>) <=> es = <<>>
  <2> DEFINE nil == <<>>
  <2>1. nil \in Seq(PlainEvents) /\ Len(nil) = 0
    OBVIOUS
  <2> HIDE DEF nil
  <2>2. Len(Closed(es)) = Len(es) + 1 /\ Len(Closed(nil)) = 1 /\ Len(es) \in Nat
    BY <2>1 DEF Closed
  <2>3. ASSUME Closed(es) = Closed(nil) PROVE Len(es) = 0
    <3>1. Len(Closed(es)) = Len(Closed(nil))
      BY <2>3
    <3>2. Len(es) + 1 = 1
      BY <2>2, <3>1
    <3> QED BY <2>2, <3>2
  <2>4. Len(es) = 0 <=> es = <<>>
    OBVIOUS
  <2> QED BY <2>3, <2>4 DEF nil
<1>5. (\E i \in DOMAIN GivenTraces : GivenTraces[i] = Closed(<<>>)) <=>
        \E i \in DOMAIN traces : traces[i] = Closed(<<>>)
  <2>1. CASE status = "parsed" /\ ~ last_terminal
    <3> DEFINE t == Closed(rest)
               longer == Append(traces, t)
    <3>1. t \in AnyTrace /\ t # Closed(<<>>)
      BY <1>1, <1>2, <1>4, <2>1 DEF GetEventOK, AnyTrace
    <3>2. GivenTraces = longer
      BY <2>1 DEF GivenTraces
    <3> HIDE DEF t, traces
    <3>3. /\ DOMAIN traces = 1 .. Len(traces) /\ DOMAIN longer = 1 .. Len(traces) + 1 /\ Len(traces) \in Nat
          /\ longer[Len(traces) + 1] = t /\ \A i \in 1 .. Len(traces) : longer[i] = traces[i]
      BY <1>2, <3>1
    <3> HIDE DEF longer
    <3>4. \A i \in 1 .. Len(traces) + 1 : i = Len(traces) + 1 \/ i \in 1 .. Len(traces)
      BY <3>3
    <3> QED BY <3>1, <3>2, <3>3, <3>4
  <2>2. CASE ~ (status = "parsed" /\ ~ last_terminal)
    BY <2>2 DEF GivenTraces
  <2> QED BY <2>1, <2>2
<1>6. traces = [n \in 1 .. Len(P) - 1 |-> Closed(Whole(mult, P[n]))]
  BY DEF TracesIn
<1>7. P \in Seq(Seq(Lines)) /\ Len(P) \in Nat
  <2>1. OneMoreLine(Lines, P, Pieces(Append(log, NoMatch), {TraceSep}), NoMatch, {TraceSep})
    BY <1>1, PiecesAppend
  <2> QED BY <2>1 DEF OneMoreLine
<1> HIDE DEF P
<1>8. ASSUME NEW n \in 1 .. Len(P) - 1
      PROVE  traces[n] = Closed(<<>>) <=> ToSet(P[n]) \cap Names = {}
  <2>1. P[n] \in Seq(Lines)
    BY <1>7
  <2>2. Whole(mult, P[n]) \in Seq(PlainEvents)
    BY <1>2, <2>1, LinesOfTrace
  <2>3. traces[n] = Closed(Whole(mult, P[n]))
    BY <1>6
  <2> QED BY <1>2, <1>4, <2>1, <2>2, <2>3, WholeIsEmpty
<1>9. DOMAIN traces = 1 .. Len(P) - 1
  BY <1>6
<1> HIDE DEF traces
<1>10. tree.null_dereferenced <=> \E n \in 1 .. Len(P) - 1 : ToSet(P[n]) \cap Names = {}
  BY <1>3, <1>5, <1>8, <1>9
<1> QED BY <1>10 DEF TreeFailsOnEmptyTraces, P, Names

\* prefix_tree_parser::add_event dereferences a null pointer for the traces without
\* a proposition and without an event separator, and for no other.
THEOREM TreeFailures == Spec => []TreeFailsOnEmptyTraces
BY ParserInvariant, IInvTreeFails, PTL


-----------------------------------------------------------------------------
(***************************************************************************)
(* The traces the format of a log describes are those the parsers are      *)
(* given, when only the lines ".." separate events.                        *)
(***************************************************************************)

\* A sequence and the set of its elements.
LEMMA InItsElements ==
  ASSUME NEW T, NEW s \in Seq(T)
  PROVE  s \in Seq(ToSet(s))
<1>1. DOMAIN s = 1 .. Len(s) /\ Len(s) \in Nat /\ s = [n \in DOMAIN s |-> s[n]]
  OBVIOUS
<1>2. \A n \in 1 .. Len(s) : s[n] \in ToSet(s)
  BY <1>1 DEF ToSet
<1> QED BY <1>1, <1>2

\* A piece has lines of the log.
LEMMA PiecesOfLines ==
  ASSUME NEW lines \in Seq(Lines), NEW seps
  PROVE  /\ Pieces(lines, seps) \in Seq(Seq(Lines)) /\ Len(Pieces(lines, seps)) \in Nat \ {0}
         /\ \A i \in 1 .. Len(Pieces(lines, seps)) : ToSet(Pieces(lines, seps)[i]) \subseteq ToSet(lines)
<1> DEFINE at == Where(lines, seps)
           P  == Pieces(lines, seps)
           L  == ToSet(lines)
<1>1. Len(at) \in Nat
  BY WhereIsEmpty
<1>2. P \in Seq(Seq(Lines)) /\ Len(P) = Len(at) + 1
  BY PiecesAre
<1>3. lines \in Seq(L)
  BY InItsElements
<1>4. P \in Seq(Seq(L))
  <2> HIDE DEF L
  <2> QED BY <1>3, PiecesAre
<1> HIDE DEF P, at, L
<1>5. \A i \in 1 .. Len(P) : P[i] \in Seq(L)
  BY <1>4
<1>6. ASSUME NEW s \in Seq(L) PROVE ToSet(s) \subseteq L
  BY DEF ToSet
<1> QED BY <1>1, <1>2, <1>5, <1>6 DEF P, L

\* The same positions, the same pieces.
LEMMA SamePieces ==
  ASSUME NEW lines \in Seq(Lines), NEW seps, NEW more,
         \A n \in DOMAIN lines : lines[n] \in seps <=> lines[n] \in more
  PROVE  Pieces(lines, seps) = Pieces(lines, more)
<1>1. {n \in DOMAIN lines : lines[n] \in seps} = {n \in DOMAIN lines : lines[n] \in more}
  OBVIOUS
<1>2. Where(lines, seps) = Where(lines, more)
  BY <1>1 DEF Where
<1> QED BY <1>2 DEF Pieces

\* The events between the separators are those that get_event ends and collects.
LEMMA EventsAreWhole ==
  ASSUME NEW lines \in Seq(Lines), ToSet(lines) \cap TwoCharProps = {}
  PROVE  MultiPropEvents(lines, {EventSep}) = Whole(TRUE, lines)
<1> DEFINE P == Pieces(lines, {EventSep})
           E(x) == Event(ToSet(x) \cap (Matched \ {EventSep}))
           events == [n \in DOMAIN P |-> E(P[n])]
           O == Ended(TRUE, lines)
           m == Len(P)
<1>1. P = Pieces(lines, Seps)
  <2>1. \A n \in DOMAIN lines : lines[n] \in {EventSep} <=> lines[n] \in Seps
    BY DEF ToSet, Seps
  <2> QED BY <2>1, SamePieces
<1>2. P \in Seq(Seq(Lines)) /\ Len(P) \in Nat \ {0} /\ \A i \in 1 .. Len(P) : ToSet(P[i]) \subseteq ToSet(lines)
  BY PiecesOfLines
<1>3. ASSUME NEW x, ToSet(x) \subseteq ToSet(lines) PROVE E(x) = Event(PropsIn(x))
  <2>1. ToSet(x) \cap (Matched \ {EventSep}) = PropsIn(x)
    BY <1>3 DEF PropsIn, Seps
  <2> QED BY <2>1
<1>4. O = [n \in 1 .. Len(P) - 1 |-> Event(PropsIn(P[n]))] /\ Collected(TRUE, lines) = PropsIn(Last(P))
  BY <1>1 DEF Ended, Collected
<1>5. MultiPropEvents(lines, {EventSep}) = IF Last(events).props = {} THEN Front(events) ELSE events
  BY DEF MultiPropEvents
<1> HIDE DEF P, E, O
<1>6. m \in Nat \ {0} /\ DOMAIN P = 1 .. m /\ m \in 1 .. m
  BY <1>2
<1>7. \A n \in 1 .. m : E(P[n]) = Event(PropsIn(P[n])) /\ E(P[n]) \in PlainEvents
  <2> SUFFICES ASSUME NEW n \in 1 .. m PROVE E(P[n]) = Event(PropsIn(P[n])) /\ E(P[n]) \in PlainEvents
    OBVIOUS
  <2>1. E(P[n]) = Event(PropsIn(P[n]))
    BY <1>2, <1>3
  <2>2. PropsIn(P[n]) \subseteq Names
    BY KindsOfLines DEF PropsIn
  <2> QED BY <2>1, <2>2 DEF PlainEvents
<1> HIDE DEF m
<1>8. events \in Seq(PlainEvents) /\ Len(events) = m /\ \A n \in 1 .. m : events[n] = Event(PropsIn(P[n]))
  BY <1>6, <1>7
<1>9. Last(P) = P[m]
  BY <1>6 DEF Last, m
<1> HIDE DEF events
<1>10. O \in Seq(PlainEvents) /\ Len(O) = m - 1 /\ \A n \in 1 .. m - 1 : O[n] = Event(PropsIn(P[n]))
  <2> DEFINE k == m - 1
  <2>1. k \in Nat /\ \A n \in 1 .. k : n \in 1 .. m
    BY <1>6
  <2> HIDE DEF k
  <2>2. O = [n \in 1 .. k |-> Event(PropsIn(P[n]))]
    BY <1>4 DEF k, m
  <2>3. \A n \in 1 .. k : Event(PropsIn(P[n])) \in PlainEvents
    BY <1>7, <2>1
  <2>4. O \in Seq(PlainEvents) /\ Len(O) = k
    BY <2>1, <2>2, <2>3
  <2> QED BY <2>2, <2>4 DEF k
<1>11. Last(events) = Event(PropsIn(P[m])) /\ Last(events).props = Collected(TRUE, lines)
  <2>1. Last(events) = events[m] /\ events[m] = Event(PropsIn(P[m]))
    BY <1>6, <1>8 DEF Last
  <2>2. Event(PropsIn(P[m])).props = PropsIn(P[m])
    BY DEF Event
  <2> QED BY <1>4, <1>9, <2>1, <2>2
<1>12. CASE Collected(TRUE, lines) = {}
  <2> DEFINE F == SubSeq(events, 1, m - 1)
  <2>1. m - 1 \in 0 .. Len(events)
    BY <1>6, <1>8
  <2>2. F \in Seq(PlainEvents) /\ Len(F) = m - 1 /\ \A n \in 1 .. m - 1 : F[n] = events[n]
    BY <1>8, <2>1, Beginning
  <2> HIDE DEF F
  <2>3. \A n \in 1 .. m - 1 : F[n] = O[n]
    <3>1. \A n \in 1 .. m - 1 : n \in 1 .. m
      BY <1>6
    <3> QED BY <1>8, <1>10, <2>2, <3>1
  <2>4. F = O
    BY <1>10, <2>2, <2>3, SameSequence
  <2>5. Front(events) = F
    BY <1>8 DEF Front, F
  <2> QED BY <1>5, <1>11, <1>12, <2>4, <2>5 DEF Whole, O
<1>13. CASE Collected(TRUE, lines) # {}
  <2> DEFINE e == Event(PropsIn(P[m]))
  <2>1. e \in PlainEvents /\ e = Event(Collected(TRUE, lines))
    BY <1>4, <1>6, <1>7, <1>9
  <2> HIDE DEF e
  <2>2. Len(events) = Len(O) + 1 /\ Len(O) + 1 = m
    BY <1>6, <1>8, <1>10
  <2>3. events[Len(O) + 1] = e
    BY <1>6, <1>8, <2>2 DEF e
  <2>4. \A n \in 1 .. Len(O) : events[n] = O[n]
    <3>1. \A n \in 1 .. Len(O) : n \in 1 .. m /\ n \in 1 .. m - 1
      BY <1>6, <2>2
    <3> QED BY <1>8, <1>10, <3>1
  <2>5. events = Append(O, e)
    BY <1>8, <1>10, <2>1, <2>2, <2>3, <2>4, AppendedSequence
  <2> QED BY <1>5, <1>11, <1>13, <2>1, <2>5 DEF Whole, O
<1> QED BY <1>12, <1>13

\* The events of a piece of the log.
LEMMA TraceOfPiece ==
  ASSUME NEW lines \in Seq(Lines), mode.parses_mult_prop \in BOOLEAN,
         mode.parses_mult_prop => ToSet(lines) \cap TwoCharProps = {}
  PROVE  TraceOf(lines) = Closed(Whole(mode.parses_mult_prop, lines))
<1>1. CASE mode.parses_mult_prop = TRUE
  BY <1>1, EventsAreWhole DEF TraceOf, EventsOf, Closed
<1>2. CASE mode.parses_mult_prop = FALSE
  BY <1>2 DEF TraceOf, EventsOf, Closed, Whole, Ended, Collected
<1> QED BY <1>1, <1>2


\* Once the log is read, the traces that have been given are the traces of the log.
LEMMA LogIsGiven ==
  ASSUME IInv, status = "parsed", LastEventIsClosed, OnlyDotsSeparate
  PROVE  LogAsTraces = GivenTraces
<1> DEFINE mult   == mode.parses_mult_prop
           traces == TracesIn(mult, log)
           rest   == EndedIn(mult, log)
           P      == Pieces(log, {TraceSep})
<1>1. /\ log \in Seq(Lines) /\ mult \in BOOLEAN
      /\ rest \in Seq(PlainEvents) /\ LastPiece(log) \in Seq(Lines)
  BY PartsOfLog DEF IInv, LogOK
<1>2. CollectedIn(mult, log) = {} /\ last_terminal = (rest = <<>>)
  BY DEF LastEventIsClosed, IInv, GetEventOK
<1>3. P \in Seq(Seq(Lines)) /\ Len(P) \in Nat \ {0} /\ \A i \in 1 .. Len(P) : ToSet(P[i]) \subseteq ToSet(log)
  BY <1>1, PiecesOfLines
<1>4. \A i \in 1 .. Len(P) : TraceOf(P[i]) = Closed(Whole(mult, P[i]))
  <2> SUFFICES ASSUME NEW i \in 1 .. Len(P) PROVE TraceOf(P[i]) = Closed(Whole(mult, P[i]))
    OBVIOUS
  <2> HIDE DEF P
  <2>1. P[i] \in Seq(Lines) /\ (mult => ToSet(P[i]) \cap TwoCharProps = {})
    BY <1>3 DEF OnlyDotsSeparate
  <2> QED BY <1>1, <2>1, TraceOfPiece
<1>5. ClosedTraces = traces
  <2>1. ClosedTraces = [n \in 1 .. Len(P) - 1 |-> TraceOf(P[n])] /\ traces = [n \in 1 .. Len(P) - 1 |-> Closed(Whole(mult, P[n]))]
    BY DEF ClosedTraces, TracesIn
  <2> HIDE DEF P
  <2>2. \A n \in 1 .. Len(P) - 1 : n \in 1 .. Len(P)
    BY <1>3
  <2> HIDE DEF traces, mult
  <2> QED BY <1>4, <2>1, <2>2
<1>6. TraceOf(Last(P)) = Closed(rest)
  <2>1. Last(P) = P[Len(P)] /\ Len(P) \in 1 .. Len(P)
    BY <1>3 DEF Last
  <2>2. TraceOf(Last(P)) = Closed(Whole(mult, Last(P)))
    BY <1>4, <2>1
  <2>3. Whole(mult, Last(P)) = rest
    BY <1>2 DEF Whole, CollectedIn, EndedIn, LastPiece
  <2> QED BY <2>2, <2>3
<1>7. Len(Closed(rest)) = 1 <=> last_terminal
  <2> HIDE DEF rest
  <2>1. Len(Closed(rest)) = Len(rest) + 1 /\ Len(rest) \in Nat
    BY <1>1 DEF Closed
  <2>2. Len(Closed(rest)) = 1 <=> rest = <<>>
    <3>1. Len(Closed(rest)) = 1 <=> Len(rest) = 0
      BY <2>1
    <3>2. Len(rest) = 0 <=> rest = <<>>
      BY <1>1
    <3> QED BY <3>1, <3>2
  <2> QED BY <1>2, <2>2
<1>8. LogAsTraces = IF Len(TraceOf(Last(P))) = 1 THEN ClosedTraces ELSE Append(ClosedTraces, TraceOf(Last(P)))
  BY DEF LogAsTraces
<1> HIDE DEF P
<1>9. LogAsTraces = IF last_terminal THEN traces ELSE Append(traces, Closed(rest))
  BY <1>5, <1>6, <1>7, <1>8
<1> QED BY <1>9 DEF GivenTraces

\* The linear parser has the traces of the log.
LEMMA IInvLinear == IInv => LinearIsTheLog
<1> SUFFICES ASSUME IInv, status = "parsed", LastEventIsClosed, OnlyDotsSeparate
             PROVE  linear.vector_trace_set = ToBag(LogAsTraces)
  BY DEF LinearIsTheLog
<1>1. linear.vector_trace_set = ToBag(GivenTraces)
  BY DEF IInv, BuiltOK, Built, LinearIs
<1> QED BY <1>1, LogIsGiven

\* The ids of the traces lead down the tree through them.
LEMMA IInvTree == IInv => TreeUnfoldsToTheLog
<1> SUFFICES ASSUME IInv, status = "parsed", LastEventIsClosed, OnlyDotsSeparate,
                    ~ tree.null_dereferenced
             PROVE  /\ tree.trace_id = Len(LogAsTraces)
                    /\ \A id \in DOMAIN LogAsTraces : FollowsTrace(id, LogAsTraces[id])
  BY DEF TreeUnfoldsToTheLog
<1> DEFINE traces == GivenTraces
           begun  == Append(traces, <<>>)
<1>1. traces = LogAsTraces /\ traces \in Seq(AnyTrace) /\ GivenRest = <<>>
  BY LogIsGiven, GivenAreTraces DEF GivenRest
<1>2. tree.trace_id = Len(traces) /\ NodesAre(tree.nodes, begun)
  BY <1>1 DEF IInv, BuiltOK, Built, TreeIs, NoNode
<1>3. AnyTrace \subseteq Seq(AnyEvent)
  <2> SUFFICES ASSUME NEW es \in Seq(PlainEvents) PROVE Append(es, TerminalEvent) \in Seq(AnyEvent)
    BY DEF AnyTrace, Closed
  <2>1. es \in Seq(AnyEvent) /\ TerminalEvent \in AnyEvent
    BY DEF AnyEvent
  <2> QED BY <2>1
<1> HIDE DEF traces
<1>4. traces \in Seq(Seq(AnyEvent)) /\ <<>> \in Seq(AnyEvent)
  BY <1>1, <1>3
<1>5. /\ begun \in Seq(Seq(AnyEvent)) /\ DOMAIN traces = 1 .. Len(traces) /\ DOMAIN begun = 1 .. Len(traces) + 1
      /\ Len(traces) \in Nat /\ \A id \in DOMAIN traces : begun[id] = traces[id] /\ id \in DOMAIN begun
  BY <1>4
<1> HIDE DEF begun
<1>6. ASSUME NEW id \in DOMAIN traces PROVE FollowsTrace(id, traces[id])
  <2>1. begun[id] = traces[id]
    BY <1>5
  <2>3. id \in DOMAIN begun
    BY <1>5
  <2>4. begun \in Seq(Seq(AnyEvent))
    BY <1>5
  <2>2. \A n \in DOMAIN begun[id] :
          ChildOfTrace(tree.nodes, SubSeq(begun[id], 1, n - 1), id) = {SubSeq(begun[id], 1, n)}
    <3> DEFINE nodes == tree.nodes
    <3>1. NodesAre(nodes, begun)
      BY <1>2
    <3> HIDE DEF nodes
    <3>2. \A n \in DOMAIN begun[id] : ChildOfTrace(nodes, SubSeq(begun[id], 1, n - 1), id) = {SubSeq(begun[id], 1, n)}
      <4> SUFFICES ASSUME NEW n \in DOMAIN begun[id]
                   PROVE  ChildOfTrace(nodes, SubSeq(begun[id], 1, n - 1), id) = {SubSeq(begun[id], 1, n)}
        OBVIOUS
      <4> QED BY <2>3, <2>4, <3>1, IdLeadsThroughTrace
    <3> QED BY <3>2 DEF nodes
  <2> QED BY <2>1, <2>2 DEF FollowsTrace
<1> QED BY <1>1, <1>2, <1>6

\* The tree is that of the log.
LEMMA IInvTreeOf == IInv => TreeIsOfTheLog
<1> SUFFICES ASSUME IInv, status = "parsed", LastEventIsClosed, OnlyDotsSeparate,
                    ~ tree.null_dereferenced
             PROVE  tree.nodes = TreeOf(LogAsTraces)
  BY DEF TreeIsOfTheLog
<1> DEFINE traces == GivenTraces
<1>1. traces = LogAsTraces /\ traces \in Seq(AnyTrace) /\ GivenRest = <<>>
  BY LogIsGiven, GivenAreTraces DEF GivenRest
<1>2. NodesAre(tree.nodes, Append(traces, <<>>))
  BY <1>1 DEF IInv, BuiltOK, Built, TreeIs, NoNode
<1>3. AnyTrace \subseteq Seq(AnyEvent)
  <2> SUFFICES ASSUME NEW es \in Seq(PlainEvents) PROVE Append(es, TerminalEvent) \in Seq(AnyEvent)
    BY DEF AnyTrace, Closed
  <2>1. es \in Seq(AnyEvent) /\ TerminalEvent \in AnyEvent
    BY DEF AnyEvent
  <2> QED BY <2>1
<1> HIDE DEF traces
<1>4. traces \in Seq(Seq(AnyEvent))
  BY <1>1, <1>3
<1>5. tree.nodes = TreeOf(traces)
  BY <1>2, <1>4, NodesAreTree
<1> QED BY <1>1, <1>5

\* Once the log is read, the linear parser (linear_parser::add_event, fed by
\* parser::get_event) has each trace of the log as often as it occurs, no event of it
\* lost, split or moved to another trace.
THEOREM LinearHoldsTheLog == Spec => []LinearIsTheLog
BY ParserInvariant, IInvLinear, PTL

\* Once the log is read, the prefix tree (prefix_tree_parser::add_event) leads from its
\* root, by the id of any trace of the log, through the events of that trace.
THEOREM TreeHoldsTheLog == Spec => []TreeUnfoldsToTheLog
BY ParserInvariant, IInvTree, PTL

\* Once the log is read, the prefix tree has a node for each beginning of a trace of the
\* log, no other, and in it the ids of the traces that begin so: the tree of the log, which
\* prefix_tree_checker is proved about.
THEOREM TreeIsTheTreeOfTheLog == Spec => []TreeIsOfTheLog
BY ParserInvariant, IInvTreeOf, PTL

-----------------------------------------------------------------------------
(***************************************************************************)
(* What the miner sees of the log: by single lines, without events and     *)
(* traces.                                                                 *)
(***************************************************************************)
SepsOf(mult) == {TraceSep} \cup IF mult THEN Seps ELSE {}

\* All lines since the last trace separator are silent.
NothingToSeparate ==
  \A m \in 1 .. Len(log) : ~ Format!Silent(m) => \E k \in m .. Len(log) : log[k] = TraceSep

\* The propositions of the event the log so far ends in the middle of.
IsPending(n) ==
  /\ mode.parses_mult_prop
  /\ log[n] \in Names \ SepsOf(TRUE)
  /\ \A k \in n + 1 .. Len(log) : log[k] \notin SepsOf(TRUE)

Pending == {log[n] : n \in {m \in DOMAIN log : IsPending(m)}}

\* Where get_event is, and whether the prefix tree parser has a trace begun.
WhereItIs ==
  status = "reading" /\ ~ tree.null_dereferenced =>
    /\ last_terminal <=> tree.temp_trace = NoNode
    /\ NothingToSeparate <=> tree.temp_trace = NoNode /\ event = {}

SInv == MinerSeesTheLog /\ event = Pending /\ WhereItIs

\* What a line more means to the lines before it and to itself.
LEMMA LinesSeen ==
  ASSUME log \in Seq(Lines), mode.parses_mult_prop \in BOOLEAN, mode' = mode,
         NEW l \in Lines, log' = Append(log, l), NEW N, N = Len(log)
  PROVE  /\ N \in Nat /\ Len(log') = N + 1 /\ DOMAIN log = 1 .. N /\ DOMAIN log' = 1 .. N + 1
         /\ \A n \in 1 .. N : log'[n] = log[n]
         /\ log'[N + 1] = l
         /\ \A n \in 1 .. N : Format!Silent(n)' <=> Format!Silent(n)
         /\ Format!Silent(N + 1)' <=> l = NoMatch
<1>1. /\ N \in Nat /\ Len(log') = N + 1 /\ DOMAIN log = 1 .. N /\ DOMAIN log' = 1 .. N + 1
      /\ \A n \in 1 .. N : log'[n] = log[n]
      /\ log'[N + 1] = l
  OBVIOUS
<1>2. \A n \in 1 .. N : Format!Silent(n)' <=> Format!Silent(n)
  BY <1>1 DEF Format!Silent
<1>3. Format!Silent(N + 1)' <=> l = NoMatch
  <2> DEFINE loud == {TraceSep} \cup Names \cup IF mode.parses_mult_prop THEN Seps ELSE {}
  <2>1. Format!Silent(N + 1)' <=> l \notin loud
    BY <1>1 DEF Format!Silent, Names, Seps
  <2>2. loud = {TraceSep} \cup Names
    BY DEF Names, Matched, Seps
  <2>3. l \notin {TraceSep} \cup Names <=> l = NoMatch
    <3>1. NoMatch # TraceSep
      BY DEF NoMatch, TraceSep
    <3> QED BY <3>1, KindsOfLines
  <2> QED BY <2>1, <2>2, <2>3
<1> QED BY <1>1, <1>2, <1>3

\* Separators with nothing to separate.
LEMMA SeparatorsSeen ==
  ASSUME log \in Seq(Lines), mode.parses_mult_prop \in BOOLEAN, mode' = mode,
         NEW l \in Lines, log' = Append(log, l), NEW N, N = Len(log)
  PROVE  /\ (\E n \in DOMAIN log' : Format!Silent(n)') <=>
              (\E n \in DOMAIN log : Format!Silent(n)) \/ l = NoMatch
         /\ (\E n \in DOMAIN log' : Format!ClosesNothing(n)') <=>
              \/ \E n \in DOMAIN log : Format!ClosesNothing(n)
              \/ l = TraceSep /\ NothingToSeparate
         /\ NothingToSeparate' <=> l = TraceSep \/ (l = NoMatch /\ NothingToSeparate)
<1>1. /\ N \in Nat /\ Len(log') = N + 1 /\ DOMAIN log = 1 .. N /\ DOMAIN log' = 1 .. N + 1
      /\ \A n \in 1 .. N : log'[n] = log[n]
      /\ log'[N + 1] = l
      /\ \A n \in 1 .. N : Format!Silent(n)' <=> Format!Silent(n)
      /\ Format!Silent(N + 1)' <=> l = NoMatch
  BY LinesSeen
<1>2. NoMatch # TraceSep
  BY DEF NoMatch, TraceSep
<1>3. (\E n \in DOMAIN log' : Format!Silent(n)') <=>
        (\E n \in DOMAIN log : Format!Silent(n)) \/ l = NoMatch
  BY <1>1
<1>4. \A n \in 1 .. N : Format!ClosesNothing(n)' <=> Format!ClosesNothing(n)
  BY <1>1 DEF Format!ClosesNothing
<1>5. Format!ClosesNothing(N + 1)' <=> l = TraceSep /\ NothingToSeparate
  <2>1. (\A m \in 1 .. N : ~ Format!Silent(m)' => \E k \in m .. N : log'[k] = TraceSep)
          <=> NothingToSeparate
    BY <1>1 DEF NothingToSeparate
  <2>2. (N + 1) - 1 = N
    BY <1>1
  <2> QED BY <1>1, <2>1, <2>2 DEF Format!ClosesNothing
<1>6. NothingToSeparate' <=> l = TraceSep \/ (l = NoMatch /\ NothingToSeparate)
  <2>1. CASE l = TraceSep
    <3>1. N + 1 \in Nat /\ \A m \in 1 .. N + 1 : N + 1 \in m .. N + 1
      BY <1>1
    <3>2. \A m \in 1 .. Len(log') : \E k \in m .. Len(log') : log'[k] = TraceSep
      BY <1>1, <2>1, <3>1
    <3> QED BY <2>1, <3>2 DEF NothingToSeparate
  <2>2. CASE l = NoMatch
    <3>1. \A m \in 1 .. N : (\E k \in m .. N + 1 : log'[k] = TraceSep)
                              <=> \E k \in m .. N : log[k] = TraceSep
      BY <1>1, <1>2, <2>2
    <3> QED BY <1>1, <1>2, <2>2, <3>1 DEF NothingToSeparate
  <2>3. CASE l \notin {TraceSep, NoMatch}
    <3>1. ~ Format!Silent(N + 1)' /\ N + 1 \in 1 .. N + 1
      BY <1>1, <2>3
    <3>2. \A k \in N + 1 .. N + 1 : log'[k] # TraceSep
      BY <1>1, <2>3
    <3> QED BY <1>1, <2>3, <3>1, <3>2 DEF NothingToSeparate
  <2> QED BY <2>1, <2>2, <2>3
<1> QED BY <1>1, <1>3, <1>4, <1>5, <1>6

\* The propositions that were ended, and those that were not.
LEMMA PropositionsSeen ==
  ASSUME log \in Seq(Lines), NEW mult \in BOOLEAN, mult = mode.parses_mult_prop, mode' = mode,
         NEW l \in Lines, log' = Append(log, l), NEW N, N = Len(log)
  PROVE  /\ Format!Propositions' = Format!Propositions \cup
              IF l \in SepsOf(mult) THEN Pending
              ELSE IF ~ mult /\ l # NoMatch THEN {l} ELSE {}
         /\ Pending' = IF ~ mult \/ l \in SepsOf(mult) THEN {}
                       ELSE IF l = NoMatch THEN Pending ELSE Pending \cup {l}
<1>1. /\ N \in Nat /\ Len(log') = N + 1 /\ DOMAIN log = 1 .. N /\ DOMAIN log' = 1 .. N + 1
      /\ \A n \in 1 .. N : log'[n] = log[n]
      /\ log'[N + 1] = l
  BY LinesSeen
<1>2. \A lines \in {log, log'} : \A n : (lines[n] \in Names \ SepsOf(mult)) <=>
         lines[n] \in (Matched \cup {EventSep}) \ ({TraceSep} \cup IF mult THEN {EventSep} \cup TwoCharProps ELSE {})
  BY DEF Names, SepsOf, Seps
<1>3. \A n : Format!IsProposition(n) <=>
               /\ log[n] \in Names \ SepsOf(mult)
               /\ mult => \E m \in n + 1 .. N : log[m] \in SepsOf(mult)
  BY <1>2 DEF Format!IsProposition, SepsOf, Seps
<1>4. \A n : Format!IsProposition(n)' <=>
               /\ log'[n] \in Names \ SepsOf(mult)
               /\ mult => \E m \in n + 1 .. N + 1 : log'[m] \in SepsOf(mult)
  BY <1>1, <1>2 DEF Format!IsProposition, SepsOf, Seps
<1>5. \A n : IsPending(n) <=> /\ mult /\ log[n] \in Names \ SepsOf(mult)
                              /\ \A k \in n + 1 .. N : log[k] \notin SepsOf(mult)
  BY DEF IsPending
<1>6. \A n : IsPending(n)' <=> /\ mult /\ log'[n] \in Names \ SepsOf(mult)
                               /\ \A k \in n + 1 .. N + 1 : log'[k] \notin SepsOf(mult)
  BY <1>1 DEF IsPending
<1>7. \A n \in 1 .. N : IsPending(n)' <=> IsPending(n) /\ l \notin SepsOf(mult)
  BY <1>1, <1>5, <1>6
<1>8. \A n \in 1 .. N : Format!IsProposition(n)' <=>
        Format!IsProposition(n) \/ (IsPending(n) /\ l \in SepsOf(mult))
  <2> SUFFICES ASSUME NEW n \in 1 .. N
               PROVE  Format!IsProposition(n)' <=>
                        Format!IsProposition(n) \/ (IsPending(n) /\ l \in SepsOf(mult))
    OBVIOUS
  <2>1. (\E m \in n + 1 .. N + 1 : log'[m] \in SepsOf(mult)) <=>
          (\E m \in n + 1 .. N : log[m] \in SepsOf(mult)) \/ l \in SepsOf(mult)
    BY <1>1
  <2>2. log'[n] = log[n]
    BY <1>1
  <2>3. CASE mult
    BY <1>3, <1>4, <1>5, <2>1, <2>2, <2>3
  <2>4. CASE ~ mult
    BY <1>3, <1>4, <1>5, <2>2, <2>4
  <2> QED BY <2>3, <2>4
<1>9. IsPending(N + 1)' <=> mult /\ l \in Names \ SepsOf(mult)
  BY <1>1, <1>6
<1>10. Format!IsProposition(N + 1)' <=> ~ mult /\ l \in Names \ SepsOf(mult)
  BY <1>1, <1>4
<1>11. /\ l \in Names \ SepsOf(mult) <=> l # NoMatch /\ l \notin SepsOf(mult)
       /\ NoMatch \notin SepsOf(mult)
  <2>1. l \in Names \cup {TraceSep, NoMatch} /\ NoMatch \notin Names \cup Seps
    BY KindsOfLines
  <2>2. NoMatch # TraceSep
    BY DEF NoMatch, TraceSep
  <2>3. SepsOf(mult) \subseteq {TraceSep} \cup Seps /\ TraceSep \in SepsOf(mult)
    BY DEF SepsOf
  <2> QED BY <2>1, <2>2, <2>3
<1>12. Pending = {log[n] : n \in {m \in 1 .. N : IsPending(m)}}
  BY <1>1 DEF Pending
<1>13. Pending' = {log'[n] : n \in {m \in 1 .. N + 1 : IsPending(m)'}}
  BY <1>1 DEF Pending
<1>14. Format!Propositions = {log[n] : n \in {m \in 1 .. N : Format!IsProposition(m)}}
  BY <1>1 DEF Format!Propositions
<1>15. Format!Propositions' = {log'[n] : n \in {m \in 1 .. N + 1 : Format!IsProposition(m)'}}
  BY <1>1 DEF Format!Propositions
<1>16. Format!Propositions' = Format!Propositions \cup
         IF l \in SepsOf(mult) THEN Pending ELSE IF ~ mult /\ l # NoMatch THEN {l} ELSE {}
  <2>1. \A x : x \in Format!Propositions' <=>
          \/ \E n \in 1 .. N : x = log[n] /\ (Format!IsProposition(n) \/ (IsPending(n) /\ l \in SepsOf(mult)))
          \/ x = l /\ ~ mult /\ l \in Names \ SepsOf(mult)
    BY <1>1, <1>8, <1>10, <1>15
  <2>2. \A x : x \in Format!Propositions <=> \E n \in 1 .. N : x = log[n] /\ Format!IsProposition(n)
    BY <1>14
  <2>3. \A x : x \in Pending <=> \E n \in 1 .. N : x = log[n] /\ IsPending(n)
    BY <1>12
  <2>4. \A x : x \in Format!Propositions' <=>
          \/ x \in Format!Propositions
          \/ x \in Pending /\ l \in SepsOf(mult)
          \/ x = l /\ ~ mult /\ l \in Names \ SepsOf(mult)
    BY <2>1, <2>2, <2>3
  <2> QED BY <1>11, <2>4
<1>17. Pending' = IF ~ mult \/ l \in SepsOf(mult) THEN {}
                  ELSE IF l = NoMatch THEN Pending ELSE Pending \cup {l}
  <2>1. \A x : x \in Pending' <=>
          \/ \E n \in 1 .. N : x = log[n] /\ IsPending(n) /\ l \notin SepsOf(mult)
          \/ x = l /\ mult /\ l \in Names \ SepsOf(mult)
    BY <1>1, <1>7, <1>9, <1>13
  <2>2. \A x : x \in Pending <=> \E n \in 1 .. N : x = log[n] /\ IsPending(n)
    BY <1>12
  <2>3. \A n : IsPending(n) => mult
    BY <1>5
  <2>4. \A x : x \in Pending' <=> \/ x \in Pending /\ l \notin SepsOf(mult)
                                  \/ x = l /\ mult /\ l \in Names \ SepsOf(mult)
    BY <2>1, <2>2
  <2>5. Pending # {} => mult
    BY <2>2, <2>3
  <2>6. CASE ~ mult \/ l \in SepsOf(mult)
    BY <2>4, <2>5, <2>6
  <2>7. CASE mult /\ l \notin SepsOf(mult) /\ l = NoMatch
    <3>1. \A x : x \in Pending' <=> x \in Pending
      BY <1>11, <2>4, <2>7
    <3> QED BY <2>7, <3>1
  <2>8. CASE mult /\ l \notin SepsOf(mult) /\ l # NoMatch
    <3>1. \A x : x \in Pending' <=> x \in Pending \cup {l}
      BY <1>11, <2>4, <2>8
    <3>2. Pending' = Pending \cup {l}
      BY <3>1
    <3> QED BY <2>8, <3>2
  <2> QED BY <2>6, <2>7, <2>8
<1> QED BY <1>16, <1>17

\* What the prefix tree parser remembers of the trace it builds.
LEMMA TraceBegun ==
  ASSUME NEW s, DOMAIN s = TreeFields, s.null_dereferenced \in BOOLEAN,
         ~ s.null_dereferenced => s.temp_trace \in Seq(PlainEvents)
  PROVE  /\ \A props \in SUBSET Names :
              LET t == TreeAdd(s, Event(props))
              IN /\ DOMAIN t = TreeFields /\ t.null_dereferenced = s.null_dereferenced
                 /\ ~ t.null_dereferenced => t.temp_trace # NoNode /\ t.temp_trace \in Seq(PlainEvents)
         /\ LET t == TreeAdd(s, TerminalEvent)
            IN /\ t.null_dereferenced <=> s.null_dereferenced \/ s.temp_trace = NoNode
               /\ ~ t.null_dereferenced => t.temp_trace = NoNode
<1>1. ASSUME NEW props \in SUBSET Names, NEW t, t = TreeAdd(s, Event(props))
      PROVE  /\ DOMAIN t = TreeFields /\ t.null_dereferenced = s.null_dereferenced
             /\ ~ t.null_dereferenced => t.temp_trace # NoNode /\ t.temp_trace \in Seq(PlainEvents)
  <2> DEFINE e == Event(props)
  <2>1. e \in PlainEvents /\ ~ e.terminal
    BY DEF PlainEvents, Event
  <2> HIDE DEF e
  <2>2. CASE s.null_dereferenced
    BY <1>1, <2>2 DEF TreeAdd
  <2>3. CASE ~ s.null_dereferenced
    <3>1. /\ DOMAIN t = TreeFields /\ t.null_dereferenced = s.null_dereferenced
          /\ t.temp_trace = Append(s.temp_trace, e)
      BY <1>1, <2>1, <2>3 DEF TreeAdd, TreeFields, e
    <3>2. Append(s.temp_trace, e) # <<>> /\ Append(s.temp_trace, e) \in Seq(PlainEvents)
      BY <2>1, <2>3
    <3> QED BY <2>3, <3>1, <3>2 DEF NoNode
  <2> QED BY <2>2, <2>3
<1>2. ASSUME NEW t, t = TreeAdd(s, TerminalEvent)
      PROVE  /\ t.null_dereferenced <=> s.null_dereferenced \/ s.temp_trace = NoNode
             /\ ~ t.null_dereferenced => t.temp_trace = NoNode
  <2>1. TerminalEvent.terminal = TRUE
    BY DEF TerminalEvent
  <2>2. CASE s.null_dereferenced
    BY <1>2, <2>2 DEF TreeAdd
  <2>3. CASE ~ s.null_dereferenced
    BY <1>2, <2>1, <2>3 DEF TreeAdd, TreeFields
  <2> QED BY <2>2, <2>3
<1> QED BY <1>1, <1>2

\* While lines are read, the tree is one TraceBegun is about.
LEMMA TreeWhileReading ==
  ASSUME IInv, status = "reading"
  PROVE  /\ DOMAIN tree = TreeFields /\ tree.null_dereferenced \in BOOLEAN
         /\ ~ tree.null_dereferenced => tree.temp_trace \in Seq(PlainEvents)
         /\ event \subseteq Names
<1> DEFINE mult == mode.parses_mult_prop
<1>1. /\ EndedIn(mult, log) \in Seq(PlainEvents) /\ CollectedIn(mult, log) \subseteq Props
  BY PartsOfLog DEF IInv
<1>2. event \subseteq Names
  BY <1>1 DEF IInv, GetEventOK, Names, Matched
<1>3. TreeIs(tree, GivenTraces, EndedIn(mult, log))
  BY DEF IInv, BuiltOK, Built, GivenRest
<1> QED BY <1>1, <1>2, <1>3 DEF TreeIs

\* A line that does to the parsers what it does to the log as the miner sees it.
LEMMA LineSeen ==
  ASSUME IInv, SInv, NEW mult, mult = mode.parses_mult_prop, mode' = mode, NEW l, Read(l),
         status' = (IF l = NoMatch /\ ~ mode.ignores_nm_lines THEN "exited" ELSE "reading"),
         tree'.null_dereferenced <=>
           tree.null_dereferenced \/ (l = TraceSep /\ tree.temp_trace = NoNode /\ event = {}),
         unique_props' = unique_props \cup (IF l \in SepsOf(mult) THEN event
                                            ELSE IF ~ mult /\ l # NoMatch THEN {l} ELSE {}),
         event' = (IF ~ mult \/ l \in SepsOf(mult) THEN {}
                   ELSE IF l = NoMatch THEN event ELSE event \cup {l}),
         ~ tree'.null_dereferenced =>
           /\ last_terminal' <=> tree'.temp_trace = NoNode
           /\ (tree'.temp_trace = NoNode /\ event' = {}) <=>
                l = TraceSep \/ (l = NoMatch /\ tree.temp_trace = NoNode /\ event = {})
  PROVE  SInv'
<1>1. /\ l \in Lines /\ log' = Append(log, l) /\ status = "reading" /\ mult \in BOOLEAN
      /\ log \in Seq(Lines)
  BY LineRead DEF IInv, LogOK
<1> DEFINE nothing == NothingToSeparate
           silent  == \E n \in DOMAIN log : Format!Silent(n)
           closes  == \E n \in DOMAIN log : Format!ClosesNothing(n)
<1>2. /\ (\E n \in DOMAIN log' : Format!Silent(n)') <=> silent \/ l = NoMatch
      /\ (\E n \in DOMAIN log' : Format!ClosesNothing(n)') <=> closes \/ (l = TraceSep /\ nothing)
      /\ NothingToSeparate' <=> l = TraceSep \/ (l = NoMatch /\ nothing)
  BY <1>1, SeparatorsSeen
<1>3. /\ Format!Propositions' = Format!Propositions \cup
           IF l \in SepsOf(mult) THEN Pending ELSE IF ~ mult /\ l # NoMatch THEN {l} ELSE {}
      /\ Pending' = IF ~ mult \/ l \in SepsOf(mult) THEN {}
                    ELSE IF l = NoMatch THEN Pending ELSE Pending \cup {l}
  BY <1>1, PropositionsSeen
<1>4. /\ status = "exited" <=> ~ mode.ignores_nm_lines /\ silent
      /\ tree.null_dereferenced <=> closes
      /\ unique_props = Format!Propositions /\ event = Pending
      /\ ~ tree.null_dereferenced => (nothing <=> tree.temp_trace = NoNode /\ event = {})
  BY <1>1 DEF SInv, MinerSeesTheLog, WhereItIs
<1> HIDE DEF nothing, silent, closes
<1>5. status' = "exited" <=> ~ mode'.ignores_nm_lines /\ \E n \in DOMAIN log' : Format!Silent(n)'
  BY <1>1, <1>2, <1>4
<1>6. tree'.null_dereferenced <=> \E n \in DOMAIN log' : Format!ClosesNothing(n)'
  BY <1>2, <1>4
<1>7. unique_props' = Format!Propositions' /\ event' = Pending'
  BY <1>3, <1>4
<1>8. WhereItIs'
  BY <1>2, <1>4 DEF WhereItIs
<1> QED BY <1>5, <1>6, <1>7, <1>8 DEF SInv, MinerSeesTheLog

LEMMA TraceSepSeen ==
  ASSUME IInv, SInv, ReadTraceSep PROVE SInv'
<1> DEFINE mult == mode.parses_mult_prop
           plain == IF event = {} THEN tree ELSE TreeAdd(tree, Event(event))
<1>1. /\ Read(TraceSep) /\ Return(TerminalEvent, event) /\ UNCHANGED <<mode, status>>
      /\ status = "reading"
  BY DEF ReadTraceSep, Read
<1>2. /\ DOMAIN tree = TreeFields /\ tree.null_dereferenced \in BOOLEAN
      /\ ~ tree.null_dereferenced => tree.temp_trace \in Seq(PlainEvents)
      /\ event \subseteq Names
  BY <1>1, TreeWhileReading
<1>3. /\ tree' = TreeAdd(plain, TerminalEvent) /\ event' = {} /\ last_terminal' = TRUE
      /\ unique_props' = unique_props \cup event
  BY <1>1 DEF Return, AddEvents, Added, TerminalEvent
<1>4. /\ DOMAIN plain = TreeFields /\ plain.null_dereferenced = tree.null_dereferenced
      /\ ~ plain.null_dereferenced => /\ plain.temp_trace \in Seq(PlainEvents)
                                      /\ plain.temp_trace = NoNode <=> event = {} /\ tree.temp_trace = NoNode
  <2>1. CASE event = {}
    BY <1>2, <2>1
  <2>2. CASE event # {}
    BY <1>2, <2>2, TraceBegun
  <2> QED BY <2>1, <2>2
<1> HIDE DEF plain
<1>5. /\ tree'.null_dereferenced <=> plain.null_dereferenced \/ plain.temp_trace = NoNode
      /\ ~ tree'.null_dereferenced => tree'.temp_trace = NoNode
  BY <1>2, <1>3, <1>4, TraceBegun
<1>6. TraceSep \in SepsOf(mult) /\ TraceSep # NoMatch
  BY DEF SepsOf, TraceSep, NoMatch
<1> QED BY <1>1, <1>3, <1>4, <1>5, <1>6, LineSeen

LEMMA EventSepSeen ==
  ASSUME IInv, SInv, ReadEventSep PROVE SInv'
<1>1. PICK l \in Seps : Read(l)
  BY DEF ReadEventSep, Seps
<1>2. /\ mode.parses_mult_prop /\ Return(Event(event), {}) /\ UNCHANGED <<mode, status>>
      /\ status = "reading"
  BY <1>1 DEF ReadEventSep, Read
<1>3. /\ DOMAIN tree = TreeFields /\ tree.null_dereferenced \in BOOLEAN
      /\ ~ tree.null_dereferenced => tree.temp_trace \in Seq(PlainEvents)
      /\ event \subseteq Names
  BY <1>2, TreeWhileReading
<1>4. /\ tree' = TreeAdd(tree, Event(event)) /\ event' = {} /\ last_terminal' = FALSE
      /\ unique_props' = unique_props \cup event
  BY <1>2 DEF Return, AddEvents, Added, Event
<1>5. /\ tree'.null_dereferenced = tree.null_dereferenced
      /\ ~ tree'.null_dereferenced => tree'.temp_trace # NoNode
  BY <1>3, <1>4, TraceBegun
<1>6. l \in SepsOf(TRUE) /\ l # TraceSep /\ l # NoMatch
  BY KindsOfLines DEF SepsOf
<1>7. mode.parses_mult_prop = TRUE
  BY <1>2, ModesAssumption DEF IInv, LogOK
<1> QED BY <1>1, <1>2, <1>4, <1>5, <1>6, <1>7, LineSeen

LEMMA PropSeen ==
  ASSUME IInv, SInv, ReadProp PROVE SInv'
<1> DEFINE mult == mode.parses_mult_prop
<1>1. PICK l \in Lines :
        /\ IsProp(l) /\ Read(l)
        /\ IF mult THEN event' = event \cup {l} /\ UNCHANGED <<last_terminal, parsers>>
           ELSE Return(Event({l}), {})
  BY DEF ReadProp
<1>2. UNCHANGED <<mode, status>> /\ status = "reading"
  BY <1>1 DEF ReadProp, Read
<1>3. l \in Names /\ (mult => l \in Props)
  BY <1>1, KindsOfLines DEF IsProp, Names, Matched
<1>4. l # TraceSep /\ l # NoMatch /\ l \notin SepsOf(mult)
  BY <1>3, KindsOfLines DEF SepsOf
<1>5. /\ DOMAIN tree = TreeFields /\ tree.null_dereferenced \in BOOLEAN
      /\ ~ tree.null_dereferenced => tree.temp_trace \in Seq(PlainEvents)
  BY <1>2, TreeWhileReading
<1>6. CASE mult
  <2>1. /\ event' = event \cup {l} /\ event' # {}
        /\ UNCHANGED <<last_terminal, tree, unique_props>>
    BY <1>1, <1>6 DEF parsers
  <2>2. ~ tree.null_dereferenced => (last_terminal <=> tree.temp_trace = NoNode)
    BY <1>2 DEF SInv, WhereItIs
  <2> QED BY <1>1, <1>2, <1>4, <1>6, <2>1, <2>2, LineSeen
<1>7. CASE ~ mult
  <2>1. /\ tree' = TreeAdd(tree, Event({l})) /\ event' = {} /\ last_terminal' = FALSE
        /\ unique_props' = unique_props \cup {l}
    BY <1>1, <1>7 DEF Return, AddEvents, Added, Event
  <2>2. /\ tree'.null_dereferenced = tree.null_dereferenced
        /\ ~ tree'.null_dereferenced => tree'.temp_trace # NoNode
    BY <1>3, <1>5, <2>1, TraceBegun
  <2> QED BY <1>1, <1>2, <1>4, <1>7, <2>1, <2>2, LineSeen
<1> QED BY <1>6, <1>7

LEMMA NoMatchSeen ==
  ASSUME IInv, SInv, ReadNoMatch PROVE SInv'
<1> DEFINE mult == mode.parses_mult_prop
<1>1. /\ Read(NoMatch) /\ status = "reading"
      /\ status' = IF mode.ignores_nm_lines THEN status ELSE "exited"
      /\ UNCHANGED <<mode, event, last_terminal, unique_props, tree>>
  BY DEF ReadNoMatch, Read, parsers
<1>2. NoMatch \notin SepsOf(mult) /\ NoMatch # TraceSep
  <2>1. NoMatch # TraceSep
    BY DEF NoMatch, TraceSep
  <2> QED BY <2>1, KindsOfLines DEF SepsOf
<1>3. ~ mult => event = {}
  BY DEF SInv, Pending, IsPending
<1>4. ~ tree.null_dereferenced => (last_terminal <=> tree.temp_trace = NoNode)
  BY <1>1 DEF SInv, WhereItIs
<1> QED BY <1>1, <1>2, <1>3, <1>4, LineSeen

\* As long as the mode and the lines are the same, so is what the miner sees of them.
LEMMA SameSeen ==
  ASSUME mode' = mode, log' = log
  PROVE  /\ (\E n \in DOMAIN log' : Format!Silent(n)') <=> \E n \in DOMAIN log : Format!Silent(n)
         /\ (\E n \in DOMAIN log' : Format!ClosesNothing(n)') <=>
              \E n \in DOMAIN log : Format!ClosesNothing(n)
         /\ Format!Propositions' = Format!Propositions
         /\ Pending' = Pending
         /\ NothingToSeparate' <=> NothingToSeparate
<1>1. \A n : Format!Silent(n)' <=> Format!Silent(n)
  BY DEF Format!Silent
<1>2. \A n : Format!ClosesNothing(n)' <=> Format!ClosesNothing(n)
  BY <1>1 DEF Format!ClosesNothing
<1>3. NothingToSeparate' <=> NothingToSeparate
  BY <1>1 DEF NothingToSeparate
<1>4. Format!Propositions' = Format!Propositions
  BY DEF Format!Propositions, Format!IsProposition
<1>5. Pending' = Pending
  BY DEF Pending, IsPending
<1> QED BY <1>1, <1>2, <1>3, <1>4, <1>5

\* The end of the file closes a trace only if one is begun.
LEMMA EndOfFileSeen ==
  ASSUME IInv, SInv, ReadEndOfFile PROVE SInv'
<1>1. /\ status = "reading" /\ status' = "parsed"
      /\ UNCHANGED <<mode, log, event, last_terminal>>
  BY DEF ReadEndOfFile
<1>2. unique_props' = unique_props
  BY DEF ReadEndOfFile, AddEvents, parsers, TerminalEvent
<1>3. tree'.null_dereferenced <=> tree.null_dereferenced
  <2>1. CASE last_terminal
    BY <2>1 DEF ReadEndOfFile, parsers
  <2>2. CASE ~ last_terminal
    <3>1. tree' = TreeAdd(tree, TerminalEvent)
      BY <2>2 DEF ReadEndOfFile, AddEvents, Added
    <3>2. ~ tree.null_dereferenced => tree.temp_trace # NoNode
      BY <1>1, <2>2 DEF SInv, WhereItIs
    <3>3. tree'.null_dereferenced <=> tree.null_dereferenced \/ tree.temp_trace = NoNode
      BY <1>1, <3>1, TreeWhileReading, TraceBegun
    <3>4. tree.null_dereferenced \in BOOLEAN
      BY <1>1, TreeWhileReading
    <3> QED BY <3>2, <3>3, <3>4
  <2> QED BY <2>1, <2>2
<1>4. MinerSeesTheLog'
  BY <1>1, <1>2, <1>3, SameSeen DEF SInv, MinerSeesTheLog
<1>5. (event = Pending)' /\ WhereItIs'
  BY <1>1, SameSeen DEF SInv, WhereItIs
<1> QED BY <1>4, <1>5 DEF SInv

\* What the miner sees is so before the first line, and after every one.
LEMMA SInvInitially == Init => SInv
<1> SUFFICES ASSUME Init PROVE SInv
  OBVIOUS
<1>1. /\ log = <<>> /\ Len(log) = 0 /\ DOMAIN log = {} /\ event = {} /\ unique_props = {}
      /\ last_terminal = TRUE /\ status = "reading"
      /\ tree.null_dereferenced = FALSE /\ tree.temp_trace = NoNode
  BY DEF Init, NewTree
<1>2. Format!Propositions = {} /\ Pending = {}
  BY <1>1 DEF Format!Propositions, Pending
<1>3. MinerSeesTheLog
  BY <1>1, <1>2 DEF MinerSeesTheLog
<1>4. NothingToSeparate
  BY <1>1 DEF NothingToSeparate
<1> QED BY <1>1, <1>2, <1>3, <1>4 DEF SInv, WhereItIs

LEMMA SInvKept == IInv /\ SInv /\ [Next]_vars => SInv'
<1> SUFFICES ASSUME IInv, SInv, [Next]_vars PROVE SInv'
  OBVIOUS
<1>1. CASE UNCHANGED vars
  <2>1. UNCHANGED <<mode, log, event, last_terminal, unique_props, tree, status>>
    BY <1>1 DEF vars, parsers
  <2>2. MinerSeesTheLog'
    BY <2>1, SameSeen DEF SInv, MinerSeesTheLog
  <2>3. (event = Pending)' /\ WhereItIs'
    BY <2>1, SameSeen DEF SInv, WhereItIs
  <2> QED BY <2>2, <2>3 DEF SInv
<1> QED BY <1>1, TraceSepSeen, EventSepSeen, PropSeen, NoMatchSeen, EndOfFileSeen DEF Next

\* However long the log and whatever the flags, where the parser exits, where the prefix tree
\* parser dereferences null and which propositions the miner is handed depend on the lines in
\* the way module Main has it.
THEOREM MinerIsShownTheLog == Spec => []MinerSeesTheLog
<1>1. SInv => MinerSeesTheLog
  BY DEF SInv
<1>2. IInv /\ SInv /\ [Next]_vars => SInv'
  BY SInvKept
<1> QED BY SInvInitially, ParserInvariant, <1>1, <1>2, PTL DEF Spec

=============================================================================
