---------------------------- MODULE InstantsPools ----------------------------
(***************************************************************************)
(* The four pools mine_property_type chooses from, held against what their *)
(* caller expects of any of them.  A behaviour is that of one pool; what   *)
(* only the other kinds have is left empty.                                *)
(***************************************************************************)
EXTENDS InstantsPoolCreator

CONSTANT Scopes  \* what the predicate events of a scoped pool may name
ASSUME ScopesAssumption == \A s \in Scopes : s \in Int /\ s < 0

VARIABLES
  kind,    \* the class of the pool
  mapto, scope_of, inst_pool, lvl, pos, switch_var, event_iterator

filling == <<inst_pool, lvl, pos, switch_var, event_iterator>>
vars    == <<kind, config, traversal, mapto, scope_of, filling>>

Otf    == INSTANCE OtfPool
Scoped == INSTANCE ScopedPool
Pregen == INSTANCE PregenPool
Const  == INSTANCE ConstPool

NoFilling == /\ inst_pool = <<>>
             /\ lvl = 0
             /\ pos = 0
             /\ switch_var = 0
             /\ event_iterator = 0

Init == \/ kind = "otf" /\ Otf!Init /\ scope_of = <<>> /\ NoFilling
        \/ kind = "scoped" /\ Scoped!InitScoped /\ NoFilling
        \/ kind = "pregen" /\ Pregen!Init /\ mapto = <<>> /\ scope_of = <<>>
        \/ kind = "const" /\ Const!Init /\ mapto = <<>> /\ scope_of = <<>> /\ NoFilling

OtfNext    == kind = "otf" /\ Otf!Next /\ UNCHANGED <<kind, scope_of, filling>>
ScopedNext == kind = "scoped" /\ Scoped!NextScoped /\ UNCHANGED <<kind, filling>>
PregenNext == kind = "pregen" /\ Pregen!Next /\ UNCHANGED <<kind, mapto, scope_of>>
ConstNext  == kind = "const" /\ Const!Next /\ UNCHANGED <<kind, mapto, scope_of, filling>>

Next == OtfNext \/ ScopedNext \/ PregenNext \/ ConstNext

\* The constructors and loops are sequential code nothing blocks, and the caller asks
\* until NULL.  Nobody need go through a pool twice.
InPass == ~ drained /\ Next

Spec == Init /\ [][Next]_vars /\ WF_vars(InPass)

-----------------------------------------------------------------------------
TypeOK == /\ kind \in {"otf", "scoped", "pregen", "const"}
          /\ kind \in {"otf", "scoped"} => Otf!WheelsTyped
          /\ kind = "pregen" => /\ lvl \in 0 .. num_vars
                                /\ pos \in 1 .. Pregen!Size + 1
                                /\ switch_var \in 0 .. Pregen!Size
                                /\ event_iterator \in Events
          /\ kind = "const" => traversal_var \in {0, 1}

\* The wheels of the on-the-fly pool, and of the scoped one, show the last counter value
\* in base num_events, highest digit first -- in a later pass too, although a reset
\* leaves the wheels alone.
WheelsShowTheCounter == kind \in {"otf", "scoped"} => Otf!WheelsShowTheCounter

\* The caller never gets an instantiation a second time in a pass: they come in
\* order, from the on-the-fly pool and the scoped one with the last variable changing
\* fastest, from the pregenerated one with the first, from the constant one alone.
Mirrored(inst) == [v \in FormVars |-> inst[num_vars - v + 1]]

InOrder(a, b) ==
  CASE kind = "otf"    -> Otf!Before(a, b)
    [] kind = "scoped" -> Otf!Before(Scoped!PredicatesOf(a), Scoped!PredicatesOf(b))
    [] kind = "pregen" -> Otf!Before(Mirrored(a), Mirrored(b))
    [] kind = "const"  -> FALSE

ReturnedInOrder ==
  \A k \in 1 .. Len(returned) - 1 : InOrder(returned[k], returned[k + 1])

\* Going from one instantiation to the next, whatever is skipped in between, every pool
\* implements InstantsPool: each admissible instantiation exactly once and then,
\* however many there were to skip, NULL; and again after a reset.
Expected == CASE kind = "scoped" -> Scoped!AdmissibleScoped
              [] kind = "const"  -> {Const!instantiation}
              [] OTHER           -> Admissible

Pool == INSTANCE InstantsPool
          WITH admissible <- Expected, handed <- returned, finished <- drained
ImplementsPool == Pool!Spec
=============================================================================
