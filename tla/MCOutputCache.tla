--------------------------- MODULE MCOutputCache ---------------------------
(* OutputCache on small inputs: an identifier, the same with the prefix     *)
(* already before it, and a blank one; an hour is one unit of time.         *)
EXTENDS OutputCache, TLC

MCPrefix == <<"p">>
MCCharacters == {"p", "_", "x"}
MCIds == {<<"x">>, <<"p", "_", "x">>, <<>>}
Symmetry == Permutations(Calls)
=============================================================================
