------------------------------ MODULE MCPages -------------------------------
(* Two folders with the same base name, one of them in two spellings; name 1 *)
(* is the base name, 2 and 3 are the names with an alias.                    *)
EXTENDS Pages, TLC

CONSTANTS x, y, x2, k1, k2

MCPath == {x, y, x2}
MCPathKey == (x :> 1) @@ (y :> 2) @@ (x2 :> 1)
MCPlain == [p \in MCPath |-> 1]
MCAliased == (x :> 2) @@ (y :> 3) @@ (x2 :> 2)

Cfg(sources, yubikey) == [sources |-> sources, yubikey |-> yubikey]
OnlyY == Cfg(<<y>>, TRUE)
Both == Cfg(<<x, y, x2>>, FALSE)
MCValues == {OnlyY, Both}
TextOf(v, outdated) == [loads |-> TRUE, values |-> v, outdated |-> outdated, updated |-> FALSE]
MCUserText ==
  {TextOf(OnlyY, TRUE), TextOf(Both, FALSE),
   [TextOf(OnlyY, FALSE) EXCEPT !.loads = FALSE]}

MCKey == {k1, k2}
MCNeedsYubiKey == (k1 :> FALSE) @@ (k2 :> TRUE)
Symmetry == Permutations(RunId)
=============================================================================
