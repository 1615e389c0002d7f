------------------------------- MODULE MCParser -------------------------------
(***************************************************************************)
(* Values for the constants of Parser.                                     *)
(***************************************************************************)
EXTENDS Parser

Mode(mult, ignores) == [parses_mult_prop |-> mult, ignores_nm_lines |-> ignores]

AllModes  == {Mode(mult, ignores) : mult, ignores \in BOOLEAN}
MultiProp == {Mode(TRUE, FALSE)}
=============================================================================
