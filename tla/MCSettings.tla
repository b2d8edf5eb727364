----------------------------- MODULE MCSettings -----------------------------
(* An instance of Settings for TLC. *)
EXTENDS Settings, TLC

CONSTANTS factory, a, h1, h2

TwoValues == {factory, a}
TwoHandlers == {h1, h2}
SomeWorlds == {{"two"}, {"two", "fail"}, {"fail", "sync"}}
Symmetry == Permutations(TwoHandlers)
=============================================================================
